---- MODULE Spec2Model ----
(***************************************************************************)
(* A model of the dynamic query / permission engine of thienel/tugo:       *)
(*   - pkg/permission: FilterBuilder (filter tree -> SQL predicate),       *)
(*     ApplyPermissionFilter, Checker (policy cache, Check, CheckWithData) *)
(*   - pkg/query: FiltersToSQL / filterToSQL                               *)
(*                                                                         *)
(* JSON-like values (Go `any`) are records of one shape                    *)
(*   [t, s, l, m]   t: the dynamic type, s: the scalar's text,             *)
(*                  l: the elements of a []any,                            *)
(*                  m: the entries [k, v] of a map[string]any, in the      *)
(*                     order in which `range` visits them.                 *)
(* Go does not fix the iteration order of a map: the inputs range over     *)
(* every order of the entries.                                             *)
(*                                                                         *)
(* SQL text is a sequence of string pieces; Render concatenates them into  *)
(* the string the Go code returns.  A placeholder $k is one piece.         *)
(***************************************************************************)
EXTENDS Integers, Sequences, FiniteSets, TLC

VARIABLES
    \* ---- permission.FilterBuilder and the filters handed to it
    reqFilter,      \* the request's own filter map
    permFilter,     \* the permission (row level) filter map
    fbFilter,       \* the filter map last handed to Build
    paramOffset,    \* FilterBuilder.paramOffset
    fbStart,        \* paramOffset when the last Build started
    fbSQL,          \* text returned by the last Build
    fbArgs,         \* args returned by the last Build
    fbOp,           \* the last operation of this component
    \* ---- query.FiltersToSQL
    qFilters,       \* []Filter handed to FiltersToSQL
    qStart,         \* startParam
    qSQL,           \* text returned
    qArgs,          \* args returned
    qOp,
    \* ---- permission.Checker
    store,          \* the tugo_permissions table: a set of Policy rows
    cache,          \* policyCache.policies: roleID -> list of Policy, or NotCached
    chkReq,         \* the last request: op, user, collection, action, data
    chkRes,         \* the value the last request returned
    chkData,        \* the data map after the last CheckWithData
    chkTrace,       \* store / cache accesses made by the last request
    chkLoad,        \* the LoadRolePolicies call in progress, if any
    chkWrote,       \* the error the last write of the table returned
    chkCleared,     \* ClearCache has run and no LoadRolePolicies has stored since
    \* ---- pure functions of the two packages, one record per call
    fld,            \* Checker.FilterAllowedFields: inputs and result
    prs,            \* query.FilterParser.Parse: inputs and result
    srt,            \* query.SortsToSQL: input and result
    san,            \* the two sanitizeIdentifier functions: input and results
    \* ---- query.Builder
    bld,            \* the Builder's fields
    bldRes,         \* the last Build* call and what it returned
    \* ---- further calls and flows
    fn,             \* a call of a pure function of package query or permission
    lst,            \* one list request going through Service.List
    conc            \* the Checker's callers running concurrently

fbVars  == <<reqFilter, permFilter, fbFilter, paramOffset, fbStart, fbSQL, fbArgs, fbOp>>
qVars   == <<qFilters, qStart, qSQL, qArgs, qOp>>
chkVars == <<store, cache, chkReq, chkRes, chkData, chkTrace, chkLoad, chkWrote,
             chkCleared>>
fnVars  == <<fld, prs, srt, san>>
bldVars == <<bld, bldRes>>
moreVars == <<fn, lst, conc>>
vars    == <<fbVars, qVars, chkVars, fnVars, bldVars, moreVars>>

-----------------------------------------------------------------------------
(* Bounds of the model *)

MaxStart  == 2     \* largest start offset / startParam drawn
MaxNodes  == 3     \* largest number of nodes of a drawn filter tree
MaxFilters == 3    \* longest []Filter drawn
MaxPolicies == 2   \* most rows of tugo_permissions

-----------------------------------------------------------------------------
(* Values *)

Str(x)   == [t |-> "string", s |-> x, l |-> <<>>, m |-> <<>>]
Num(x)   == [t |-> "number", s |-> x, l |-> <<>>, m |-> <<>>]
Bool(x)  == [t |-> "bool",   s |-> x, l |-> <<>>, m |-> <<>>]
Null     == [t |-> "null",   s |-> "", l |-> <<>>, m |-> <<>>]
List(xs) == [t |-> "list",   s |-> "", l |-> xs,   m |-> <<>>]
Map(es)  == [t |-> "map",    s |-> "", l |-> <<>>, m |-> es]
KV(k, v) == [k |-> k, v |-> v]

Keys(mp) == {mp.m[i].k : i \in 1..Len(mp.m)}
HasKey(mp, k) == \E i \in 1..Len(mp.m) : mp.m[i].k = k
Get(mp, k) == mp.m[CHOOSE i \in 1..Len(mp.m) : mp.m[i].k = k].v

-----------------------------------------------------------------------------
(* Text *)

RECURSIVE Render(_)
Render(ps) == IF ps = <<>> THEN "" ELSE Head(ps) \o Render(Tail(ps))

\* fmt.Sprintf("$%d", n)
Ph(n) == "$" \o ToString(n)

\* strings.Join over pieces (elems are single pieces)
RECURSIVE JoinPieces(_, _)
JoinPieces(elems, sep) ==
    IF elems = <<>> THEN <<>>
    ELSE IF Len(elems) = 1 THEN <<Head(elems)>>
    ELSE <<Head(elems), sep>> \o JoinPieces(Tail(elems), sep)

\* strings.Join over texts (elems are sequences of pieces)
RECURSIVE JoinTexts(_, _)
JoinTexts(elems, sep) ==
    IF elems = <<>> THEN <<>>
    ELSE IF Len(elems) = 1 THEN Head(elems)
    ELSE Head(elems) \o <<sep>> \o JoinTexts(Tail(elems), sep)

\* the runes of the identifiers the model uses (`for _, c := range name`)
Chars(name) ==
    CASE name = "a"    -> <<"a">>
      [] name = "b"    -> <<"b">>
      [] name = "a;b"  -> <<"a", ";", "b">>
      [] name = "%"    -> <<"%">>
      [] name = "owner"  -> <<"o", "w", "n", "e", "r">>
      [] name = "public" -> <<"p", "u", "b", "l", "i", "c">>
      [] name = "state"  -> <<"s", "t", "a", "t", "e">>
      [] name = "_x"   -> <<"_", "x">>
      [] name = "-a"   -> <<"-", "a">>
      [] name = " a"   -> <<" ", "a">>
      [] name = "1a"   -> <<"1", "a">>
      [] name = ""     -> <<>>
      [] name = "x"         -> <<"x">>
      [] name = "100"       -> <<"1", "0", "0">>
      [] name = "p,q"       -> <<"p", ",", "q">>
      [] name = " p ,\fq,r" -> <<" ", "p", " ", ",", "\f", "q", ",", "r">>
      [] name = "filter[a]"       -> <<"f","i","l","t","e","r","[","a","]">>
      [] name = "filter[a:gt]"    -> <<"f","i","l","t","e","r","[","a",":","g","t","]">>
      [] name = "filter[b:in]"    -> <<"f","i","l","t","e","r","[","b",":","i","n","]">>
      [] name = "filter[b]"       -> <<"f","i","l","t","e","r","[","b","]">>
      [] name = "filter[a:bogus]" ->
            <<"f","i","l","t","e","r","[","a",":","b","o","g","u","s","]">>
      [] name = "filter[a:EQ]"    -> <<"f","i","l","t","e","r","[","a",":","E","Q","]">>
      [] name = "filter[1a]"      -> <<"f","i","l","t","e","r","[","1","a","]">>
      [] name = "page"            -> <<"p","a","g","e">>
      [] name = "sort"            -> <<"s","o","r","t">>
      [] name = "limit"           -> <<"l","i","m","i","t">>
      [] name = "0" -> <<"0">>
      [] name = "-3" -> <<"-", "3">>
      [] name = "abc" -> <<"a", "b", "c">>
      [] name = "2" -> <<"2">>
      [] name = "+5" -> <<"+", "5">>
      [] name = "007" -> <<"0", "0", "7">>
      [] name = "461168601842738792" -> <<"4", "6", "1", "1", "6", "8", "6", "0", "1", "8", "4", "2", "7", "3", "8", "7", "9", "2">>
      [] name = "9223372036854775807" -> <<"9", "2", "2", "3", "3", "7", "2", "0", "3", "6", "8", "5", "4", "7", "7", "5", "8", "0", "7">>
      [] name = "9223372036854775808" -> <<"9", "2", "2", "3", "3", "7", "2", "0", "3", "6", "8", "5", "4", "7", "7", "5", "8", "0", "8">>
      [] name = "99999999999999999999" -> <<"9", "9", "9", "9", "9", "9", "9", "9", "9", "9", "9", "9", "9", "9", "9", "9", "9", "9", "9", "9">>
      [] name = "-1" -> <<"-", "1">>
      [] name = "10" -> <<"1", "0">>
      [] name = "101" -> <<"1", "0", "1">>
      [] name = "500" -> <<"5", "0", "0">>
      [] name = "1" -> <<"1">>
      [] name = "-" -> <<"-">>
      [] name = "20" -> <<"2", "0">>
      [] name = "id" -> <<"i", "d">>
      [] name = "ID" -> <<"I", "D">>
      [] name = "status" -> <<"s", "t", "a", "t", "u", "s">>
      [] name = "price" -> <<"p", "r", "i", "c", "e">>
      [] name = "created_at" -> <<"c", "r", "e", "a", "t", "e", "d", "_", "a", "t">>
      [] name = "id; DROP TABLE x" -> <<"i", "d", ";", " ", "D", "R", "O", "P", " ", "T", "A", "B", "L", "E", " ", "x">>
      [] name = "a.b" -> <<"a", ".", "b">>
      [] name = "123abc" -> <<"1", "2", "3", "a", "b", "c">>
      [] name = "field-name" -> <<"f", "i", "e", "l", "d", "-", "n", "a", "m", "e">>
      [] name = "user_id" -> <<"u", "s", "e", "r", "_", "i", "d">>
      [] name = "_private" -> <<"_", "p", "r", "i", "v", "a", "t", "e">>
      [] name = "field123" -> <<"f", "i", "e", "l", "d", "1", "2", "3">>
      [] name = "name" -> <<"n", "a", "m", "e">>
      [] name = "createdAt" -> <<"c", "r", "e", "a", "t", "e", "d", "A", "t">>
      [] name = "field' OR '1'='1" -> <<"f", "i", "e", "l", "d", "'", " ", "O", "R", " ", "'", "1", "'", "=", "'", "1">>
      [] name = "a b" -> <<"a", " ", "b">>
      [] name = "A1" -> <<"A", "1">>
      [] name = "9" -> <<"9">>
      [] name = "_" -> <<"_">>
      [] name = "a-" -> <<"a", "-">>
      [] name = "x_1;" -> <<"x", "_", "1", ";">>

Lower  == {"a","b","c","d","e","f","g","h","i","j","k","l","m",
           "n","o","p","q","r","s","t","u","v","w","x","y","z"}
Upper  == {"A","B","C","D","E","F","G","H","I","J","K","L","M",
           "N","O","P","Q","R","S","T","U","V","W","X","Y","Z"}
Digits == {"0","1","2","3","4","5","6","7","8","9"}

-----------------------------------------------------------------------------
(* permission.FilterBuilder *)

IsIdentRune(c) == c \in Lower \cup Upper \cup Digits \cup {"_"}

\* permission.sanitizeIdentifier: keeps the allowed runes, drops the others
sanitizeIdentifierPerm(name) == Render(SelectSeq(Chars(name), IsIdentRune))

\* fmt.Sprint of a decoded JSON value (maps are outside the model's inputs)
RECURSIVE Sprint(_)
Sprint(v) ==
    CASE v.t \in {"string", "number", "bool"} -> v.s
      [] v.t = "null" -> "<nil>"
      [] v.t = "list" ->
            "[" \o Render(JoinPieces([i \in 1..Len(v.l) |-> Sprint(v.l[i])], " ")) \o "]"

\* operators compiled to `<field> <op> $n` with the value itself as the arg
CompareOps == {"_eq", "_ne", "_neq", "_gt", "_gte", "_lt", "_lte", "_regex", "_iregex"}
CompareSQL(op) ==
    CASE op = "_eq"              -> " = "
      [] op \in {"_ne", "_neq"}  -> " != "
      [] op = "_gt"              -> " > "
      [] op = "_gte"             -> " >= "
      [] op = "_lt"              -> " < "
      [] op = "_lte"             -> " <= "
      [] op = "_regex"           -> " ~ "
      [] op = "_iregex"          -> " ~* "

\* operators compiled to `<field> [NOT ]ILIKE $n` with a pattern as the arg
PatternOps == {"_like", "_contains", "_nlike", "_not_contains", "_starts_with", "_ends_with"}
PatternSQL(op) ==
    IF op \in {"_nlike", "_not_contains"} THEN " NOT ILIKE " ELSE " ILIKE "
PatternArg(op, value) ==
    CASE op \in {"_like", "_contains", "_nlike", "_not_contains"} ->
            Str("%" \o Sprint(value) \o "%")
      [] op = "_starts_with" -> Str(Sprint(value) \o "%")
      [] op = "_ends_with"   -> Str("%" \o Sprint(value))

\* one iteration of the loop over the operator map; acc = [conds, args, off]
OpStep(sf, op, value, acc) ==
    LET n == acc.off + 1
        One(sqlop, arg) ==
            [conds |-> Append(acc.conds, <<sf, sqlop, Ph(n)>>),
             args  |-> Append(acc.args, arg),
             off   |-> n]
        Many(sqlop) ==
            LET k == Len(value.l) IN
            [conds |-> Append(acc.conds,
                         <<sf, sqlop>>
                         \o JoinPieces([i \in 1..k |-> Ph(acc.off + i)], ", ")
                         \o <<")">>),
             args  |-> acc.args \o value.l,
             off   |-> acc.off + k]
        NoArg(sqltext) ==
            [acc EXCEPT !.conds = Append(acc.conds, <<sf, sqltext>>)]
    IN  CASE op \in CompareOps -> One(CompareSQL(op), value)
          [] op = "_in" ->
                IF value.t = "list" /\ Len(value.l) > 0 THEN Many(" IN (") ELSE acc
          [] op \in {"_nin", "_not_in"} ->
                IF value.t = "list" /\ Len(value.l) > 0 THEN Many(" NOT IN (") ELSE acc
          [] op \in PatternOps -> One(PatternSQL(op), PatternArg(op, value))
          [] op \in {"_null", "_is_null"} ->
                IF value.t = "bool"
                THEN IF value.s = "true" THEN NoArg(" IS NULL") ELSE NoArg(" IS NOT NULL")
                ELSE acc
          [] op \in {"_nnull", "_is_not_null"} -> NoArg(" IS NOT NULL")
          [] op = "_between" ->
                IF value.t = "list" /\ Len(value.l) = 2
                THEN [conds |-> Append(acc.conds,
                                  <<sf, " BETWEEN ", Ph(acc.off + 1), " AND ", Ph(acc.off + 2)>>),
                      args  |-> acc.args \o <<value.l[1], value.l[2]>>,
                      off   |-> acc.off + 2]
                ELSE acc
          [] OTHER -> acc

RECURSIVE OpLoop(_, _, _)
OpLoop(sf, ops, acc) ==
    IF ops = <<>> THEN acc
    ELSE OpLoop(sf, Tail(ops), OpStep(sf, Head(ops).k, Head(ops).v, acc))

\* buildOperatorCondition spending a placeholder number on an operator map
\* that compiles to nothing
buildOperatorConditionSpending(field, ops, off) ==
    LET r == OpLoop(sanitizeIdentifierPerm(field), ops.m,
                    [conds |-> <<>>, args |-> <<>>, off |-> off])
    IN  IF Len(r.conds) = 0
        THEN [sql |-> <<>>, args |-> <<>>, off |-> r.off + 1]
        ELSE [sql |-> JoinTexts(r.conds, " AND "), args |-> r.args, off |-> r.off]

\* FilterBuilder.buildOperatorCondition: [sql, args, off]
buildOperatorCondition(field, ops, off) ==
    LET r == OpLoop(sanitizeIdentifierPerm(field), ops.m,
                    [conds |-> <<>>, args |-> <<>>, off |-> off])
    IN  IF Len(r.conds) = 0
        THEN [sql |-> <<>>, args |-> <<>>, off |-> r.off]
        ELSE [sql |-> JoinTexts(r.conds, " AND "), args |-> r.args, off |-> r.off]

\* buildFieldCondition numbering the placeholder without advancing paramOffset
buildFieldConditionReuse(field, value, off) ==
    IF value.t = "map"
    THEN buildOperatorCondition(field, value, off)
    ELSE [sql  |-> <<sanitizeIdentifierPerm(field), " = ", Ph(off + 1)>>,
          args |-> <<value>>,
          off  |-> off]

\* FilterBuilder.buildFieldCondition: [sql, args, off]
buildFieldCondition(field, value, off) ==
    IF value.t = "map"
    THEN buildOperatorCondition(field, value, off)
    ELSE [sql  |-> <<sanitizeIdentifierPerm(field), " = ", Ph(off + 1)>>,
          args |-> <<value>>,
          off  |-> off + 1]

RECURSIVE buildConditions(_, _)

RECURSIVE AndLoop(_, _)
AndLoop(filters, acc) ==
    IF filters = <<>> THEN acc
    ELSE LET f == Head(filters) IN
         IF f.t = "map"
         THEN LET sub == buildConditions(f, acc.off) IN
              AndLoop(Tail(filters),
                      [conds |-> acc.conds \o sub.conds,
                       args  |-> acc.args \o sub.args,
                       off   |-> sub.off])
         ELSE AndLoop(Tail(filters), acc)

\* buildAndConditions leaving the group without its parentheses
buildAndConditionsBare(filters, off) ==
    LET r == AndLoop(filters, [conds |-> <<>>, args |-> <<>>, off |-> off])
    IN  IF Len(r.conds) = 0
        THEN [sql |-> <<>>, args |-> <<>>, off |-> r.off]
        ELSE [sql  |-> JoinTexts(r.conds, " AND "),
              args |-> r.args, off |-> r.off]

\* FilterBuilder.buildAndConditions: [sql, args, off]
buildAndConditions(filters, off) ==
    LET r == AndLoop(filters, [conds |-> <<>>, args |-> <<>>, off |-> off])
    IN  IF Len(r.conds) = 0
        THEN [sql |-> <<>>, args |-> <<>>, off |-> r.off]
        ELSE [sql  |-> <<"(">> \o JoinTexts(r.conds, " AND ") \o <<")">>,
              args |-> r.args, off |-> r.off]

RECURSIVE OrLoop(_, _)
OrLoop(filters, acc) ==
    IF filters = <<>> THEN acc
    ELSE LET f == Head(filters) IN
         IF f.t = "map"
         THEN LET sub == buildConditions(f, acc.off) IN
              IF Len(sub.conds) > 0
              THEN OrLoop(Tail(filters),
                          [conds |-> Append(acc.conds,
                                       <<"(">> \o JoinTexts(sub.conds, " AND ") \o <<")">>),
                           args  |-> acc.args \o sub.args,
                           off   |-> sub.off])
              ELSE OrLoop(Tail(filters), [acc EXCEPT !.off = sub.off])
         ELSE OrLoop(Tail(filters), acc)

\* the loop of buildOrConditions leaving each child without its parentheses
RECURSIVE OrLoopFlat(_, _)
OrLoopFlat(filters, acc) ==
    IF filters = <<>> THEN acc
    ELSE LET f == Head(filters) IN
         IF f.t = "map"
         THEN LET sub == buildConditions(f, acc.off) IN
              IF Len(sub.conds) > 0
              THEN OrLoopFlat(Tail(filters),
                          [conds |-> Append(acc.conds, JoinTexts(sub.conds, " AND ")),
                           args  |-> acc.args \o sub.args,
                           off   |-> sub.off])
              ELSE OrLoopFlat(Tail(filters), [acc EXCEPT !.off = sub.off])
         ELSE OrLoopFlat(Tail(filters), acc)

\* buildOrConditions over children that are not parenthesized
buildOrConditionsFlat(filters, off) ==
    LET r == OrLoopFlat(filters, [conds |-> <<>>, args |-> <<>>, off |-> off])
    IN  IF Len(r.conds) = 0
        THEN [sql |-> <<>>, args |-> <<>>, off |-> r.off]
        ELSE [sql  |-> <<"(">> \o JoinTexts(r.conds, " OR ") \o <<")">>,
              args |-> r.args, off |-> r.off]

\* FilterBuilder.buildOrConditions: [sql, args, off]
buildOrConditions(filters, off) ==
    LET r == OrLoop(filters, [conds |-> <<>>, args |-> <<>>, off |-> off])
    IN  IF Len(r.conds) = 0
        THEN [sql |-> <<>>, args |-> <<>>, off |-> r.off]
        ELSE [sql  |-> <<"(">> \o JoinTexts(r.conds, " OR ") \o <<")">>,
              args |-> r.args, off |-> r.off]

\* one iteration of the loop of buildConditions over the filter map
CondStep(field, value, acc) ==
    LET Add(r) ==
            IF Render(r.sql) # ""
            THEN [conds |-> Append(acc.conds, r.sql),
                  args  |-> acc.args \o r.args,
                  off   |-> r.off]
            ELSE [acc EXCEPT !.off = r.off]
    IN  CASE field = "_and" ->
                IF value.t = "list" THEN Add(buildAndConditions(value.l, acc.off)) ELSE acc
          [] field = "_or" ->
                IF value.t = "list" THEN Add(buildOrConditions(value.l, acc.off)) ELSE acc
          [] OTHER -> Add(buildFieldCondition(field, value, acc.off))

RECURSIVE CondLoop(_, _)
CondLoop(entries, acc) ==
    IF entries = <<>> THEN acc
    ELSE CondLoop(Tail(entries), CondStep(Head(entries).k, Head(entries).v, acc))

\* FilterBuilder.buildConditions: [conds, args, off]
buildConditions(filter, off) ==
    CondLoop(filter.m, [conds |-> <<>>, args |-> <<>>, off |-> off])

\* FilterBuilder.Build: [sql, args, off]; off is paramOffset after the call
Build(filter, off) ==
    IF Len(filter.m) = 0
    THEN [sql |-> <<>>, args |-> <<>>, off |-> off]
    ELSE LET r == buildConditions(filter, off) IN
         IF Len(r.conds) = 0
         THEN [sql |-> <<>>, args |-> <<>>, off |-> r.off]
         ELSE [sql |-> JoinTexts(r.conds, " AND "), args |-> r.args, off |-> r.off]

\* ApplyPermissionFilter offering the permission filter as an alternative (OR)
ApplyPermissionFilterOr(existingFilters, permF) ==
    IF Len(permF.m) = 0 THEN existingFilters
    ELSE IF Len(existingFilters.m) = 0 THEN permF
    ELSE Map(<<KV("_or", List(<<existingFilters, permF>>))>>)

\* permission.ApplyPermissionFilter
ApplyPermissionFilter(existingFilters, permF) ==
    IF Len(permF.m) = 0 THEN existingFilters
    ELSE IF Len(existingFilters.m) = 0 THEN permF
    ELSE Map(<<KV("_and", List(<<existingFilters, permF>>))>>)

-----------------------------------------------------------------------------
(* The filter trees the FilterBuilder is run on *)

EmptyMap == Map(<<>>)

\* field conditions: scalars (implicit equality) and operator maps, among them
\* an operator map that compiles to nothing and a field name of dropped runes only
FieldAtoms ==
    { KV("a", Num("1")),
      KV("b", Map(<<KV("_gt", Num("1")), KV("_between", List(<<Num("2"), Num("9")>>))>>)),
      KV("a", Map(<<KV("_in", List(<<Num("1"), Str("x")>>))>>)),
      KV("b", Map(<<KV("_like", Str("x")), KV("_null", Bool("true"))>>)),
      KV("a", Map(<<KV("_bogus", Num("1"))>>)),
      KV("%", Num("1")) }

\* groups that hold no condition at all
HollowGroups ==
    { KV("_and", List(<<>>)),
      KV("_or",  List(<<EmptyMap, Str("x")>>)) }

RECURSIVE EntriesOf(_), EntrySeqsOf(_), ListsOf(_)

\* map entries of exactly n nodes (a field is one node, a group is one node
\* more than the maps it lists)
EntriesOf(n) ==
    IF n = 1 THEN FieldAtoms \cup HollowGroups
    ELSE {KV(g, List(L)) : g \in {"_and", "_or"}, L \in ListsOf(n - 1)}

\* the entries of a map of exactly n nodes, keys distinct, in every visiting order
EntrySeqsOf(n) ==
    {<<e>> : e \in EntriesOf(n)}
    \cup UNION {{<<p[1]>> \o p[2] :
                    p \in {q \in EntriesOf(i) \X EntrySeqsOf(n - i) :
                              \A j \in 1..Len(q[2]) : q[2][j].k # q[1].k}}
                : i \in 1..(n - 1)}

\* lists of maps of exactly n nodes in all
ListsOf(n) ==
    {<<Map(es)>> : es \in EntrySeqsOf(n)}
    \cup UNION {{<<Map(es)>> \o L : es \in EntrySeqsOf(i), L \in ListsOf(n - i)}
                : i \in 1..(n - 1)}

\* filter maps of at most n nodes
FilterMaps(n) ==
    {EmptyMap} \cup UNION {{Map(es) : es \in EntrySeqsOf(i)} : i \in 1..n}

\* the two groups the documentation compiles by hand
AndExample ==
    Map(<<KV("_and", List(<<Map(<<KV("a", Num("1"))>>), Map(<<KV("b", Num("2"))>>)>>))>>)
OrExample ==
    Map(<<KV("_or",  List(<<Map(<<KV("a", Num("1"))>>), Map(<<KV("a", Num("2"))>>)>>))>>)

\* operators of the wrong shape next to one that compiles
MixedShapes ==
    Map(<<KV("a", Map(<<KV("_in", List(<<>>)), KV("_eq", Num("1")),
                        KV("_between", List(<<Num("1"), Num("2"), Num("3")>>)),
                        KV("_null", Str("yes")), KV("_bogus", Num("1")),
                        KV("_nin", Str("x"))>>))>>)

\* filters that hold operators and groups only of the wrong shape
ShapeFilters ==
    { MixedShapes,
      Map(<<KV("a", Map(<<KV("_in", Str("x")), KV("_between", List(<<Num("1")>>)),
                          KV("_is_null", Num("1"))>>))>>),
      Map(<<KV("_and", List(<<Map(<<KV("a", Map(<<KV("_bogus", Num("1"))>>))>>), Str("x")>>)),
            KV("_or",  List(<<Map(<<KV("b", Map(<<KV("_not_in", List(<<>>))>>))>>)>>)),
            KV("b",    Map(<<KV("_between", Str("x"))>>)),
            KV("_x",   EmptyMap)>>),
      Map(<<KV("_or", Str("x")), KV("_and", Map(<<KV("a", Num("1"))>>))>>) }

\* the request filters drawn
RequestFilters == FilterMaps(MaxNodes) \cup ShapeFilters \cup {AndExample, OrExample}

\* row filters of policies, variables already resolved
PermFilters ==
    { EmptyMap,
      Map(<<KV("owner", Str("u1"))>>),
      Map(<<KV("_or", List(<<Map(<<KV("owner", Str("u1"))>>),
                             Map(<<KV("public", Bool("true")),
                                   KV("state", Map(<<KV("_ne", Str("draft"))>>))>>)>>))>>) }

-----------------------------------------------------------------------------
(* Specification of the FilterBuilder component *)

NoText == <<>>

\* NewFilterBuilder(n), and the request / permission filters of one request;
\* the other components stay idle
InitFB ==
    /\ paramOffset \in {0, MaxStart}
    /\ reqFilter \in RequestFilters
    /\ permFilter \in PermFilters
    /\ fbFilter = EmptyMap
    /\ fbStart = paramOffset
    /\ fbSQL = NoText
    /\ fbArgs = <<>>
    /\ fbOp = "new"
    /\ qFilters = <<>> /\ qStart = 1 /\ qSQL = NoText /\ qArgs = <<>> /\ qOp = "idle"
    /\ store = {} /\ cache = <<>> /\ chkReq = <<>> /\ chkRes = <<>>
    /\ chkData = EmptyMap /\ chkTrace = <<>> /\ chkLoad = <<>>
    /\ chkWrote = "" /\ chkCleared = FALSE
    /\ fld = [op |-> "idle"] /\ prs = [op |-> "idle"] /\ srt = [op |-> "idle"]
    /\ bld = [op |-> "idle"] /\ bldRes = [op |-> "idle"] /\ san = [op |-> "idle"]
    /\ fn = [op |-> "idle"] /\ lst = [op |-> "idle"] /\ conc = [op |-> "idle"]

\* fb.Build(filter) on the fresh builder of the state (a builder compiles one
\* statement)
DoBuild(filter, op) ==
    /\ fbOp = "new"
    /\ LET r == Build(filter, paramOffset) IN
        /\ fbFilter' = filter
        /\ fbStart' = paramOffset
        /\ fbSQL' = r.sql
        /\ fbArgs' = r.args
        /\ paramOffset' = r.off
        /\ fbOp' = op
    /\ UNCHANGED <<reqFilter, permFilter, qVars, chkVars, fnVars, bldVars, moreVars>>

BuildRequest    == DoBuild(reqFilter, "build_request")
BuildPermission == DoBuild(permFilter, "build_permission")
\* fb.Build(ApplyPermissionFilter(request, permission))
BuildApplied    == DoBuild(ApplyPermissionFilter(reqFilter, permFilter), "build_applied")

NextFB == BuildRequest \/ BuildPermission \/ BuildApplied

SpecFB == InitFB /\ [][NextFB]_vars

-----------------------------------------------------------------------------
(* Reading a compiled predicate *)

PhLimit == 24      \* largest placeholder number looked for in a text

IsPh(piece) == \E k \in 0..PhLimit : piece = Ph(k)
PhNum(piece) == CHOOSE k \in 0..PhLimit : piece = Ph(k)

\* the placeholder numbers of a text, left to right
RECURSIVE PhNums(_)
PhNums(ps) ==
    IF ps = <<>> THEN <<>>
    ELSE (IF IsPh(Head(ps)) THEN <<PhNum(Head(ps))>> ELSE <<>>) \o PhNums(Tail(ps))

\* the values a filter map binds, in the order its conditions are visited
RECURSIVE BoundValues(_)
BoundValues(v) ==
    LET OfOp(e) ==
            CASE e.k \in CompareOps -> <<e.v>>
              [] e.k \in PatternOps -> <<PatternArg(e.k, e.v)>>
              [] e.k \in {"_in", "_nin", "_not_in"} ->
                    IF e.v.t = "list" THEN e.v.l ELSE <<>>
              [] e.k = "_between" ->
                    IF e.v.t = "list" /\ Len(e.v.l) = 2 THEN e.v.l ELSE <<>>
              [] OTHER -> <<>>
        RECURSIVE OfOps(_)
        OfOps(es) == IF es = <<>> THEN <<>> ELSE OfOp(Head(es)) \o OfOps(Tail(es))
        RECURSIVE OfList(_)
        OfList(xs) ==
            IF xs = <<>> THEN <<>>
            ELSE (IF Head(xs).t = "map" THEN BoundValues(Head(xs)) ELSE <<>>)
                 \o OfList(Tail(xs))
        OfEntry(e) ==
            IF e.k \in {"_and", "_or"}
            THEN (IF e.v.t = "list" THEN OfList(e.v.l) ELSE <<>>)
            ELSE (IF e.v.t = "map" THEN OfOps(e.v.m) ELSE <<e.v>>)
        RECURSIVE OfEntries(_)
        OfEntries(es) == IF es = <<>> THEN <<>> ELSE OfEntry(Head(es)) \o OfEntries(Tail(es))
    IN  OfEntries(v.m)

FBBuilt == fbOp \in {"build_request", "build_permission", "build_applied"}

-----------------------------------------------------------------------------
(* Claims on the FilterBuilder *)

\* C1: a Build that starts at paramOffset n and returns p args emits the
\* placeholders n+1 .. n+p, each once, increasing from left to right in the
\* text; the i-th arg is the i-th value the filter binds in visiting order;
\* GetParamOffset() is n+p afterwards.
C1_PlaceholdersSequential ==
    FBBuilt =>
        /\ PhNums(fbSQL) = [i \in 1..Len(fbArgs) |-> fbStart + i]
        /\ fbArgs = BoundValues(fbFilter)
        /\ paramOffset = fbStart + Len(fbArgs)

\* C1 witness: a Build from a non-zero offset over a nested group and a
\* sibling field, returning three args
C1_Witness ==
    /\ fbOp = "build_request"
    /\ fbStart = MaxStart
    /\ Len(fbArgs) = 3
    /\ Len(fbFilter.m) = 2
    /\ HasKey(fbFilter, "_or")

\* C3: the permission filter is ANDed with the request's filter: with both
\* maps non-empty the filter compiled is {"_and": [request, permission]} and
\* its predicate is the request's conditions and the permission's conditions
\* in one AND group; with an empty request filter the permission filter is
\* compiled unchanged.
C3_PermissionFilterAnded ==
    fbOp = "build_applied" =>
        LET rq == Build(reqFilter, fbStart)
            pm == Build(permFilter, rq.off)
        IN  /\ (Len(reqFilter.m) > 0 /\ Len(permFilter.m) > 0) =>
                  /\ fbFilter = Map(<<KV("_and", List(<<reqFilter, permFilter>>))>>)
                  /\ fbSQL = <<"(">>
                             \o JoinTexts(SelectSeq(<<rq.sql, pm.sql>>,
                                                    LAMBDA t : t # <<>>), " AND ")
                             \o <<")">>
                  /\ fbArgs = rq.args \o pm.args
                  /\ pm.sql # <<>>
            /\ (Len(reqFilter.m) = 0) =>
                  /\ fbFilter = permFilter
                  /\ fbSQL = pm.sql
                  /\ fbArgs = pm.args

\* C3 witness: a request filter with an _or group applied to a permission
\* filter that is itself an _or group
C3_Witness ==
    /\ fbOp = "build_applied"
    /\ HasKey(reqFilter, "_or")
    /\ Len(Build(reqFilter, fbStart).args) >= 2
    /\ HasKey(permFilter, "_or")
    /\ Len(fbArgs) >= 5

-----------------------------------------------------------------------------
(* query: filters to SQL *)

\* query.operatorSQL; a missing key reads as ""
OperatorSQLKeys == {"eq", "ne", "gt", "gte", "lt", "lte", "like", "in", "null", "notnull"}
operatorSQL(op) ==
    CASE op = "eq"      -> "="
      [] op = "ne"      -> "!="
      [] op = "gt"      -> ">"
      [] op = "gte"     -> ">="
      [] op = "lt"      -> "<"
      [] op = "lte"     -> "<="
      [] op = "like"    -> "ILIKE"
      [] op = "in"      -> "IN"
      [] op = "null"    -> "IS NULL"
      [] op = "notnull" -> "IS NOT NULL"
      [] OTHER          -> ""

\* query.sanitizeIdentifier: the name when it matches ^[a-zA-Z_][a-zA-Z0-9_]*$, else ""
sanitizeIdentifier(name) ==
    LET cs == Chars(name) IN
    IF /\ Len(cs) >= 1
       /\ cs[1] \in Lower \cup Upper \cup {"_"}
       /\ \A i \in 2..Len(cs) : cs[i] \in Lower \cup Upper \cup Digits \cup {"_"}
    THEN name
    ELSE ""

\* strings.Split(s, ","), on runes
RECURSIVE SplitComma(_, _)
SplitComma(cs, cur) ==
    IF cs = <<>> THEN <<cur>>
    ELSE IF Head(cs) = "," THEN <<cur>> \o SplitComma(Tail(cs), <<>>)
    ELSE SplitComma(Tail(cs), Append(cur, Head(cs)))

\* unicode.IsSpace, the runes strings.TrimSpace removes; a rune that has no
\* escape in a TLA+ string is written by its code point
WhiteSpace ==
    { "\t", "\n", "U+000B", "\f", "\r", " ", "U+0085", "U+00A0", "U+1680",
      "U+2000", "U+2001", "U+2002", "U+2003", "U+2004", "U+2005", "U+2006",
      "U+2007", "U+2008", "U+2009", "U+200A", "U+2028", "U+2029", "U+202F",
      "U+205F", "U+3000" }

\* strings.TrimSpace, on runes
RECURSIVE TrimLeft(_)
TrimLeft(cs) ==
    IF cs # <<>> /\ Head(cs) \in WhiteSpace THEN TrimLeft(Tail(cs)) ELSE cs
RECURSIVE TrimRight(_)
TrimRight(cs) ==
    IF cs # <<>> /\ cs[Len(cs)] \in WhiteSpace
    THEN TrimRight(SubSeq(cs, 1, Len(cs) - 1)) ELSE cs
TrimSpace(cs) == TrimRight(TrimLeft(cs))

\* query.filterToSQL: [sql, args]
filterToSQL(f, paramNum) ==
    LET field == sanitizeIdentifier(f.Field) IN
    CASE f.Operator = "null" ->
            [sql |-> <<field, " IS NULL">>, args |-> <<>>]
      [] f.Operator = "notnull" ->
            [sql |-> <<field, " IS NOT NULL">>, args |-> <<>>]
      [] f.Operator = "like" ->
            [sql |-> <<field, " ILIKE ", Ph(paramNum)>>,
             args |-> <<"%" \o f.Value \o "%">>]
      [] f.Operator = "in" ->
            LET values == SplitComma(Chars(f.Value), <<>>) IN
            [sql |-> <<field, " IN (">>
                     \o JoinPieces([i \in 1..Len(values) |-> Ph(paramNum + i - 1)], ", ")
                     \o <<")">>,
             args |-> [i \in 1..Len(values) |-> Render(TrimSpace(values[i]))]]
      [] OTHER ->
            [sql |-> <<field, " ", operatorSQL(f.Operator), " ", Ph(paramNum)>>,
             args |-> <<f.Value>>]

\* the loop of FiltersToSQL; acc = [conds, args, paramNum]
RECURSIVE FiltersLoop(_, _)
FiltersLoop(filters, acc) ==
    IF filters = <<>> THEN acc
    ELSE LET r == filterToSQL(Head(filters), acc.paramNum) IN
         FiltersLoop(Tail(filters),
                     [conds    |-> Append(acc.conds, r.sql),
                      args     |-> acc.args \o r.args,
                      paramNum |-> acc.paramNum + Len(r.args)])

\* FiltersLoop advancing by one placeholder per filter
RECURSIVE FiltersLoopByOne(_, _)
FiltersLoopByOne(filters, acc) ==
    IF filters = <<>> THEN acc
    ELSE LET r == filterToSQL(Head(filters), acc.paramNum) IN
         FiltersLoopByOne(Tail(filters),
                     [conds    |-> Append(acc.conds, r.sql),
                      args     |-> acc.args \o r.args,
                      paramNum |-> acc.paramNum + 1])

\* FiltersToSQL counting one placeholder for every filter
FiltersToSQLByOne(filters, startParam) ==
    IF Len(filters) = 0
    THEN [sql |-> <<>>, args |-> <<>>]
    ELSE LET r == FiltersLoopByOne(filters, [conds |-> <<>>, args |-> <<>>,
                                             paramNum |-> startParam])
         IN  [sql |-> JoinTexts(r.conds, " AND "), args |-> r.args]

\* query.FiltersToSQL: [sql, args]
FiltersToSQL(filters, startParam) ==
    IF Len(filters) = 0
    THEN [sql |-> <<>>, args |-> <<>>]
    ELSE LET r == FiltersLoop(filters, [conds |-> <<>>, args |-> <<>>,
                                        paramNum |-> startParam])
         IN  [sql |-> JoinTexts(r.conds, " AND "), args |-> r.args]

-----------------------------------------------------------------------------
(* Specification of query.FiltersToSQL *)

Filter(f, op, v) == [Field |-> f, Operator |-> op, Value |-> v]

\* the filters drawn: every branch of filterToSQL, `in` values of one, two and
\* three items, a field name that fails sanitization, an unknown operator
FilterUniverse ==
    { Filter("a",  "eq",      "x"),
      Filter("b",  "gt",      "100"),
      Filter("a",  "like",    "x"),
      Filter("a",  "in",      "p,q"),
      Filter("b",  "in",      " p ,\fq,r"),
      Filter("a",  "in",      ""),
      Filter("b",  "null",    "x"),
      Filter("a",  "notnull", "x"),
      Filter("1a", "lte",     "x"),
      Filter("a",  "bogus",   "x") }

RECURSIVE SeqsUpTo(_, _)
SeqsUpTo(S, n) ==
    IF n = 0 THEN {<<>>}
    ELSE LET shorter == SeqsUpTo(S, n - 1) IN
         shorter \cup {Append(q, x) : q \in {y \in shorter : Len(y) = n - 1}, x \in S}

InitQ ==
    /\ qFilters \in SeqsUpTo(FilterUniverse, MaxFilters)
    /\ qStart \in 1..MaxStart
    /\ qSQL = NoText
    /\ qArgs = <<>>
    /\ qOp = "new"
    /\ paramOffset = 0 /\ reqFilter = EmptyMap /\ permFilter = EmptyMap
    /\ fbFilter = EmptyMap /\ fbStart = 0 /\ fbSQL = NoText /\ fbArgs = <<>>
    /\ fbOp = "idle"
    /\ store = {} /\ cache = <<>> /\ chkReq = <<>> /\ chkRes = <<>>
    /\ chkData = EmptyMap /\ chkTrace = <<>> /\ chkLoad = <<>>
    /\ chkWrote = "" /\ chkCleared = FALSE
    /\ fld = [op |-> "idle"] /\ prs = [op |-> "idle"] /\ srt = [op |-> "idle"]
    /\ bld = [op |-> "idle"] /\ bldRes = [op |-> "idle"] /\ san = [op |-> "idle"]
    /\ fn = [op |-> "idle"] /\ lst = [op |-> "idle"] /\ conc = [op |-> "idle"]

\* sql, args := FiltersToSQL(filters, startParam)
CallFiltersToSQL ==
    /\ qOp = "new"
    /\ LET r == FiltersToSQL(qFilters, qStart) IN
        /\ qSQL' = r.sql
        /\ qArgs' = r.args
    /\ qOp' = "sql"
    /\ UNCHANGED <<qFilters, qStart, fbVars, chkVars, fnVars, bldVars, moreVars>>

NextQ == CallFiltersToSQL

SpecQ == InitQ /\ [][NextQ]_vars

-----------------------------------------------------------------------------
(* Claims on FiltersToSQL *)

\* the number of comma separated items of a value
ItemCount(v) == 1 + Len(SelectSeq(Chars(v), LAMBDA c : c = ","))

\* the number of args a filter binds
ArgCount(f) ==
    CASE f.Operator \in {"null", "notnull"} -> 0
      [] f.Operator = "in" -> ItemCount(f.Value)
      [] OTHER -> 1

\* the conditions of a text joined with " AND "
RECURSIVE SplitAnd(_, _)
SplitAnd(ps, cur) ==
    IF ps = <<>> THEN <<cur>>
    ELSE IF Head(ps) = " AND " THEN <<cur>> \o SplitAnd(Tail(ps), <<>>)
    ELSE SplitAnd(Tail(ps), Append(cur, Head(ps)))

RECURSIVE SumArgCount(_)
SumArgCount(fs) == IF fs = <<>> THEN 0 ELSE ArgCount(Head(fs)) + SumArgCount(Tail(fs))

\* C2: the placeholders of FiltersToSQL(filters, n) are n, n+1, .. in text
\* order, one per arg; the text is one condition per filter, in filter order,
\* joined with " AND "; the condition of an `in` filter of k items holds k
\* consecutive placeholders, that of null / notnull none, any other one; the
\* args of a filter are its trimmed items (in), its wrapped value (like) or
\* its value.
C2_FilterPlaceholdersContiguous ==
    (qOp = "sql" /\ Len(qFilters) > 0) =>
        LET conds == SplitAnd(qSQL, <<>>)
            Before(j) == SumArgCount(SubSeq(qFilters, 1, j - 1))
        IN  /\ PhNums(qSQL) = [i \in 1..Len(qArgs) |-> qStart + i - 1]
            /\ Len(qArgs) = SumArgCount(qFilters)
            /\ Len(conds) = Len(qFilters)
            /\ \A j \in 1..Len(qFilters) :
                  LET f == qFilters[j] IN
                  /\ conds[j][1] = sanitizeIdentifier(f.Field)
                  /\ PhNums(conds[j]) =
                        [i \in 1..ArgCount(f) |-> qStart + Before(j) + i - 1]
                  /\ f.Operator \notin {"null", "notnull", "in", "like"} =>
                        qArgs[Before(j) + 1] = f.Value
                  /\ f.Operator = "like" =>
                        qArgs[Before(j) + 1] = "%" \o f.Value \o "%"
                  /\ f.Operator = "in" =>
                        \A i \in 1..ArgCount(f) :
                            qArgs[Before(j) + i]
                              = Render(TrimSpace(SplitComma(Chars(f.Value), <<>>)[i]))

\* C2 witness: an `in` filter of three items between a null filter and an
\* equality filter, numbered from a start above 1
C2_Witness ==
    /\ qOp = "sql"
    /\ qStart = MaxStart
    /\ Len(qFilters) = 3
    /\ qFilters[1].Operator = "null"
    /\ qFilters[2].Operator = "in" /\ ItemCount(qFilters[2].Value) = 3
    /\ qFilters[3].Operator = "eq"
    /\ Render(qSQL) = "b IS NULL AND b IN ($2, $3, $4) AND a = $5"
    /\ qArgs = <<"p", "q", "r", "x">>

-----------------------------------------------------------------------------
(* permission.Checker: policies, users *)

\* FieldPermissions
FieldPerms(allowed, denied, readOnly) ==
    [Allowed |-> allowed, Denied |-> denied, ReadOnly |-> readOnly]
NoFieldPerms == FieldPerms(<<>>, <<>>, <<>>)

\* a Policy row; the JSON columns hold the raw text ("": no bytes)
Policy(role, coll, action, body) ==
    [RoleID |-> role, Collection |-> coll, Action |-> action,
     Filter |-> body.Filter, FieldPermissions |-> body.FieldPermissions,
     Presets |-> body.Presets]

PolicyKey(p) == <<p.RoleID, p.Collection, p.Action>>

\* auth.User; NoUser is the nil *auth.User
User(id, username, email, role, roleID) ==
    [nil |-> FALSE, ID |-> id, Username |-> username, Email |-> email,
     Role |-> role, RoleID |-> roleID]
NoUser == [nil |-> TRUE, ID |-> "", Username |-> "", Email |-> "", Role |-> "", RoleID |-> ""]

\* CheckResult; NilResult is the nil *CheckResult returned with an error
CheckResult(allowed, filter, perms, presets, reason) ==
    [nil |-> FALSE, Allowed |-> allowed, Filter |-> filter, FieldPerms |-> perms,
     Presets |-> presets, Reason |-> reason]
NilResult ==
    [nil |-> TRUE, Allowed |-> FALSE, Filter |-> Null, FieldPerms |-> NoFieldPerms,
     Presets |-> Null, Reason |-> ""]

\* ORDER BY collection, action of PolicyStore.GetByRole
CollationRank(x) ==
    CASE x = "*" -> 1 [] x = "create" -> 2 [] x = "delete" -> 3 [] x = "pages" -> 4
      [] x = "posts" -> 5 [] x = "read" -> 6 [] x = "update" -> 7

PolicyBefore(p, q) ==
    \/ CollationRank(p.Collection) < CollationRank(q.Collection)
    \/ /\ p.Collection = q.Collection
       /\ CollationRank(p.Action) < CollationRank(q.Action)

RECURSIVE OrderPolicies(_)
OrderPolicies(S) ==
    IF S = {} THEN <<>>
    ELSE LET first == CHOOSE p \in S : \A q \in S \ {p} : PolicyBefore(p, q)
         IN  <<first>> \o OrderPolicies(S \ {first})

\* PolicyStore.GetByRole: the rows of the role, ordered
GetByRole(rows, roleID) == OrderPolicies({p \in rows : p.RoleID = roleID})

NoPolicy == Policy("", "", "", [Filter |-> "", FieldPermissions |-> "", Presets |-> ""])

\* PolicyStore.GetByRoleAndCollection: [found, policy]
GetByRoleAndCollection(rows, roleID, coll, action) ==
    LET hit == {p \in rows : PolicyKey(p) = <<roleID, coll, action>>} IN
    IF hit = {} THEN [found |-> FALSE, policy |-> NoPolicy]
    ELSE [found |-> TRUE, policy |-> CHOOSE p \in hit : TRUE]

\* the loop of getPolicy over the cached policies: the first match
RECURSIVE FindCached(_, _, _)
FindCached(policies, coll, action) ==
    IF policies = <<>> THEN [found |-> FALSE, policy |-> NoPolicy]
    ELSE IF Head(policies).Collection = coll /\ Head(policies).Action = action
    THEN [found |-> TRUE, policy |-> Head(policies)]
    ELSE FindCached(Tail(policies), coll, action)

\* an entry of policyCache.policies: ok is the `ok` of the map read
NotCached == [ok |-> FALSE, policies |-> <<>>]
Cached(policies) == [ok |-> TRUE, policies |-> policies]

NotFound == [found |-> FALSE, policy |-> NoPolicy]

\* what the lookups of a Check hand on: r = [found, policy], the error text
\* and the accesses made so far
Got(r, err, c, s) ==
    [found |-> r.found, policy |-> r.policy, err |-> err, cacheReads |-> c,
     storeReads |-> s]

\* the error a failing query returns
DBError == "sql: connection is closed"

\* getPolicy, lines 169-180, finding no entry whatever the cache holds
getPolicyCachedNever(entries, roleID, coll, action) ==
    [ok |-> FALSE, found |-> FALSE, policy |-> NoPolicy]

\* getPolicy, lines 169-180: the role's entry as read under the read lock and
\* the first match in it; [ok, found, policy]; entries is policyCache.policies
getPolicyCached(entries, roleID, coll, action) ==
    [ok     |-> entries[roleID].ok,
     found  |-> FindCached(entries[roleID].policies, coll, action).found,
     policy |-> FindCached(entries[roleID].policies, coll, action).policy]

\* getPolicy, lines 182-188: the query, made with no lock held; rows is the
\* table at the time of the query, dbFails whether the query fails
FetchPolicy(rows, roleID, coll, action, dbFails) ==
    IF dbFails THEN [found |-> FALSE, policy |-> NoPolicy, err |-> TRUE]
    ELSE [found  |-> GetByRoleAndCollection(rows, roleID, coll, action).found,
          policy |-> GetByRoleAndCollection(rows, roleID, coll, action).policy,
          err    |-> FALSE]

\* the cache after a query that stores the rows of the role it had to query
AfterQueryPopulating(entries, rows, roleID, dbFails) ==
    IF dbFails THEN entries
    ELSE [entries EXCEPT ![roleID] = Cached(GetByRole(rows, roleID))]

\* getPolicy, lines 182-188: the cache after the query; nothing is written
AfterQuery(entries, rows, roleID, dbFails) == entries

\* the "*" policy first, the requested collection's as the fallback
LookupOrderWildcardFirst(coll) == <<"*", coll>>

\* Check, lines 66 and 74: the collections of the first and the second getPolicy
LookupOrder(coll) == <<coll, "*">>

\* Check, lines 68 and 76: the error of the k-th lookup
LookupError(k) ==
    IF k = 1 THEN "failed to get policy: " \o DBError
    ELSE "failed to get wildcard policy: " \o DBError

\* resolveVariable applied to its own result
resolveVariableTwice(value, user) ==
    LET once(x) ==
            CASE x \in {"$USER_ID", "$CURRENT_USER"} -> user.ID
              [] x \in {"$ROLE_ID", "$CURRENT_ROLE"} -> user.RoleID
              [] x \in {"$ROLE", "$ROLE_NAME"}       -> user.Role
              [] x = "$USERNAME"                     -> user.Username
              [] x = "$EMAIL"                        -> user.Email
              [] OTHER                               -> x
    IN  Str(once(once(value)))

\* resolveVariable: the value a string stands for
resolveVariable(value, user) ==
    CASE value \in {"$USER_ID", "$CURRENT_USER"} -> Str(user.ID)
      [] value \in {"$ROLE_ID", "$CURRENT_ROLE"} -> Str(user.RoleID)
      [] value \in {"$ROLE", "$ROLE_NAME"}       -> Str(user.Role)
      [] value = "$USERNAME"                     -> Str(user.Username)
      [] value = "$EMAIL"                        -> Str(user.Email)
      [] OTHER                                   -> Str(value)

\* resolveValue
RECURSIVE resolveValue(_, _)
resolveValue(value, user) ==
    CASE value.t = "string" -> resolveVariable(value.s, user)
      [] value.t = "map" ->
           Map([i \in 1..Len(value.m) |->
                   KV(value.m[i].k, resolveValue(value.m[i].v, user))])
      [] value.t = "list" ->
           List([i \in 1..Len(value.l) |-> resolveValue(value.l[i], user)])
      [] OTHER -> value

\* resolveFilterVariables; Null is the nil map
resolveFilterVariables(filter, user) ==
    IF filter = Null THEN Null
    ELSE Map([i \in 1..Len(filter.m) |->
                 KV(filter.m[i].k, resolveValue(filter.m[i].v, user))])

\* resolvePresetValue
resolvePresetValue(value, user) ==
    IF value.t = "string" THEN resolveVariable(value.s, user) ELSE value

\* contains
contains(slice, value) == \E i \in 1..Len(slice) : slice[i] = value

\* Check, lines 80-83, granting instead of denying
NoPermissionGranted(action, coll) ==
    CheckResult(TRUE, Null, NoFieldPerms, Null, "")

\* Check, lines 80-83
NoPermission(action, coll) ==
    CheckResult(FALSE, Null, NoFieldPerms, Null,
                "no permission for " \o action \o " on " \o coll)

\* json.Unmarshal of the raw texts written to the filter and presets columns
UnmarshalMap(raw) ==
    CASE raw = "{\"author_id\":\"$USER_ID\",\"$ROLE_ID\":{\"_in\":[\"$ROLE_ID\",\"$ROLE\",\"$ROLE_NAME\",\"$USERNAME\",\"$EMAIL\",\"$CURRENT_USER\",\"$CURRENT_ROLE\",\"$user_id\",\"x$USER_ID\",1,true,null,[\"$USER_ID\",{\"k\":\"$EMAIL\"}]]}}" ->
           Map(<<
             KV("author_id", Str("$USER_ID")),
             KV("$ROLE_ID", Map(<<
               KV("_in", List(<<Str("$ROLE_ID"), Str("$ROLE"), Str("$ROLE_NAME"),
                                Str("$USERNAME"), Str("$EMAIL"), Str("$CURRENT_USER"),
                                Str("$CURRENT_ROLE"), Str("$user_id"), Str("x$USER_ID"),
                                Num("1"), Bool("true"), Null,
                                List(<<Str("$USER_ID"),
                                       Map(<<KV("k", Str("$EMAIL"))>>)>>)>>))>>))>>)
      [] raw = "{\"owner\":\"$USER_ID\",\"status\":\"draft\",\"meta\":{\"by\":\"$EMAIL\"}}" ->
           Map(<<KV("owner", Str("$USER_ID")), KV("status", Str("draft")),
                 KV("meta", Map(<<KV("by", Str("$EMAIL"))>>))>>)
      [] raw = "{}" -> EmptyMap

\* json.Unmarshal of the raw texts written to the field_permissions column
UnmarshalFieldPermissions(raw) ==
    CASE raw = "{\"denied\":[\"secret\"],\"read_only\":[\"id\"]}" ->
           FieldPerms(<<>>, <<"secret">>, <<"id">>)
      [] raw = "{\"allowed\":[\"title\",\"id\"]}" ->
           FieldPerms(<<"title", "id">>, <<>>, <<>>)
      [] raw = "{}" -> NoFieldPerms

\* ParsePolicy: a column without bytes leaves the zero value (nil map, empty lists)
ParsePolicy(p) ==
    [FilterMap |-> IF p.Filter # "" THEN UnmarshalMap(p.Filter) ELSE Null,
     FieldPermissionsMap |-> IF p.FieldPermissions # ""
                             THEN UnmarshalFieldPermissions(p.FieldPermissions)
                             ELSE NoFieldPerms,
     PresetsMap |-> IF p.Presets # "" THEN UnmarshalMap(p.Presets) ELSE Null]

\* Check, lines 93-101: the granting result
Granted(parsed, user) ==
    CheckResult(TRUE, resolveFilterVariables(parsed.FilterMap, user),
                parsed.FieldPermissionsMap, parsed.PresetsMap, "")

\* Check, lines 87-101
PolicyResult(policy, user) == Granted(ParsePolicy(policy), user)

\* Check, lines 67-101, on what the lookups found
Decide(found, user, coll, action) ==
    [res |-> IF found.err # "" THEN NilResult
             ELSE IF ~found.found THEN NoPermission(action, coll)
             ELSE PolicyResult(found.policy, user),
     err |-> found.err,
     cacheReads |-> found.cacheReads, storeReads |-> found.storeReads]

\* Check, lines 50-63, without the admin shortcut
EarlyResultNilOnly(user) ==
    IF user.nil
    THEN [done |-> TRUE,
          res |-> CheckResult(FALSE, Null, NoFieldPerms, Null, "user not authenticated")]
    ELSE [done |-> FALSE, res |-> NilResult]

\* Check, lines 50-63: the result that needs no policy; [done, res]
EarlyResult(user) ==
    IF user.nil
    THEN [done |-> TRUE,
          res |-> CheckResult(FALSE, Null, NoFieldPerms, Null, "user not authenticated")]
    ELSE IF user.Role = "admin"
    THEN [done |-> TRUE, res |-> CheckResult(TRUE, Null, NoFieldPerms, Null, "")]
    ELSE [done |-> FALSE, res |-> NilResult]

\* the error of checkFieldPermissions for one key, "" for none
FieldError(key, perms, action) ==
    IF contains(perms.Denied, key)
    THEN "field '" \o key \o "' is not allowed"
    ELSE IF action # "read" /\ contains(perms.ReadOnly, key)
    THEN "field '" \o key \o "' is read-only"
    ELSE IF Len(perms.Allowed) > 0 /\ ~contains(perms.Allowed, key)
    THEN "field '" \o key \o "' is not in allowed list"
    ELSE ""

\* the first error, else what the rest of the loop returns
OrElse(e, rest) == IF e # "" THEN e ELSE rest

\* checkFieldPermissions over the entries of data in range order: the first error
RECURSIVE checkFieldPermissions(_, _, _)
checkFieldPermissions(entries, perms, action) ==
    IF entries = <<>> THEN ""
    ELSE OrElse(FieldError(Head(entries).k, perms, action),
                checkFieldPermissions(Tail(entries), perms, action))

\* what is left of a call that wrote into a nil map: the runtime panics with
\* "assignment to entry in nil map" and the call returns nothing
Panicked == [t |-> "panic", s |-> "assignment to entry in nil map", l |-> <<>>,
             m |-> <<>>]

\* CheckWithData, lines 127-129: one preset.  Reading a nil map finds no key,
\* and line 128 writes into it
ApplyPreset(data, p, user) ==
    IF HasKey(data, p.k) THEN data
    ELSE IF data = Null THEN Panicked
    ELSE Map(Append(data.m, KV(p.k, resolvePresetValue(p.v, user))))

\* CheckWithData, lines 125-130: the presets written into data, up to a panic
RECURSIVE ApplyPresets(_, _, _)
ApplyPresets(data, presets, user) ==
    IF presets = <<>> \/ data = Panicked THEN data
    ELSE ApplyPresets(ApplyPreset(data, Head(presets), user), Tail(presets), user)

\* CheckWithData, lines 107-133, on the result r of Check and the field error
WithData(r, fieldErr, user, action, data) ==
    IF r.err # "" \/ ~r.res.Allowed
    THEN [res |-> r.res, err |-> r.err, data |-> data,
          cacheReads |-> r.cacheReads, storeReads |-> r.storeReads]
    ELSE IF fieldErr # ""
    THEN [res |-> CheckResult(FALSE, Null, NoFieldPerms, Null, fieldErr),
          err |-> "", data |-> data,
          cacheReads |-> r.cacheReads, storeReads |-> r.storeReads]
    ELSE [res |-> r.res, err |-> "",
          data |-> IF action = "create" /\ Len(r.res.Presets.m) > 0
                   THEN ApplyPresets(data, r.res.Presets.m, user)
                   ELSE data,
          cacheReads |-> r.cacheReads, storeReads |-> r.storeReads]

\* CheckWithData, lines 106-116
FieldsChecked(r, user, action, data) ==
    WithData(r, checkFieldPermissions(data.m, r.res.FieldPerms, action),
             user, action, data)

-----------------------------------------------------------------------------
(* PolicyStore writes.  A row's id stands for its (role_id, collection,      *)
(* action), which UNIQUE(role_id, collection, action) makes a key.           *)

HasRow(rows, policy) == \E p \in rows : PolicyKey(p) = PolicyKey(policy)

\* PolicyStore.Create, lines 500-518: INSERT.  ExecContext's error is returned
\* as it is: a statement the database could not run (dbFails) leaves the table
\* as it was, and a second row of the same key violates UNIQUE
Create(rows, policy, dbFails) ==
    IF dbFails THEN [rows |-> rows, err |-> DBError]
    ELSE IF HasRow(rows, policy)
    THEN [rows |-> rows, err |-> "pq: duplicate key value violates unique constraint"]
    ELSE [rows |-> rows \cup {policy}, err |-> ""]

\* PolicyStore.Update, lines 521-543: UPDATE ... WHERE id; ExecContext's error
\* is returned (lines 533-535), no row affected is "policy not found"
Update(rows, policy, dbFails) ==
    IF dbFails THEN [rows |-> rows, err |-> DBError]
    ELSE IF ~HasRow(rows, policy)
    THEN [rows |-> rows, err |-> "policy not found"]
    ELSE [rows |-> {p \in rows : PolicyKey(p) # PolicyKey(policy)} \cup {policy},
          err |-> ""]

\* PolicyStore.Delete, lines 546-560: DELETE ... WHERE id; ExecContext's error
\* is returned (lines 550-552), no row affected is "policy not found"
Delete(rows, id, dbFails) ==
    IF dbFails THEN [rows |-> rows, err |-> DBError]
    ELSE IF \A p \in rows : PolicyKey(p) # id
    THEN [rows |-> rows, err |-> "policy not found"]
    ELSE [rows |-> {p \in rows : PolicyKey(p) # id}, err |-> ""]

\* PolicyStore.Upsert, lines 563-583: INSERT ... ON CONFLICT (role_id,
\* collection, action) DO UPDATE; ExecContext's error is returned (line 582)
Upsert(rows, policy, dbFails) ==
    IF dbFails THEN [rows |-> rows, err |-> DBError]
    ELSE [rows |-> {p \in rows : PolicyKey(p) # PolicyKey(policy)} \cup {policy},
          err |-> ""]

-----------------------------------------------------------------------------
(* The Checker as a state machine *)

Roles == {"r1", "r2"}

UAdmin == User("ua", "root", "root@x", "admin", "r1")
U1     == User("U1", "$EMAIL", "u1@x", "editor", "r1")
Users  == {NoUser, UAdmin, U1}

Collections == {"posts"}          \* collections asked for
Actions     == {"read", "create"}  \* ActionRead, ActionCreate

\* the JSON columns of the policies written
Bodies ==
    { [Filter |-> "{\"author_id\":\"$USER_ID\",\"$ROLE_ID\":{\"_in\":[\"$ROLE_ID\",\"$ROLE\",\"$ROLE_NAME\",\"$USERNAME\",\"$EMAIL\",\"$CURRENT_USER\",\"$CURRENT_ROLE\",\"$user_id\",\"x$USER_ID\",1,true,null,[\"$USER_ID\",{\"k\":\"$EMAIL\"}]]}}",
       FieldPermissions |-> "{\"denied\":[\"secret\"],\"read_only\":[\"id\"]}",
       Presets |-> "{\"owner\":\"$USER_ID\",\"status\":\"draft\",\"meta\":{\"by\":\"$EMAIL\"}}"],
      [Filter |-> "",
       FieldPermissions |-> "{\"allowed\":[\"title\",\"id\"]}",
       Presets |-> ""] }

\* the (role, collection, action) written to
PolicyKeys ==
    { <<"r1", "posts", "read">>, <<"r1", "*", "read">>, <<"r1", "*", "create">> }

\* the policies written: the first body for "*", the second for the collection
Policies ==
    {p \in {Policy(k[1], k[2], k[3], b) : k \in PolicyKeys, b \in Bodies} :
        (p.Collection = "*") = (p.Filter # "")}

\* the data maps handed to CheckWithData, in every range order, and the nil map
DataMaps ==
    { Null,
      Map(<<KV("title", Str("t"))>>),
      Map(<<KV("owner", Str("me"))>>),
      Map(<<KV("id", Str("7"))>>),
      Map(<<KV("secret", Str("s")), KV("id", Str("7"))>>),
      Map(<<KV("id", Str("7")), KV("secret", Str("s"))>>) }

\* one call of Check or CheckWithData: pc is "none" before the first call,
\* "query" while the k-th getPolicy waits for the database, "read" before the
\* k-th getPolicy reads the cache, "returned" after the call, "panicked" after
\* a call that ended in a panic (which the caller recovered)
Call(op, user, coll, action, data, pc, k) ==
    [op |-> op, user |-> user, collection |-> coll, action |-> action,
     data |-> data, pc |-> pc, k |-> k]

Ret(res, err) == [res |-> res, err |-> err]

\* what the getPolicy of one collection met: whether the role had a cache
\* entry when the cache was read (had), where the answer came from (src:
\* "cache", "store", "failed" for a failing query, "" while there is none) and
\* the policies of that collection and action the source held at that time
Seen(had, src, match) == [had |-> had, src |-> src, match |-> match]
NotLooked == Seen(FALSE, "", {})

\* the accesses of a call, and what its lookups of the requested collection
\* (exact) and of "*" (wild) met
Trace(c, s, exact, wild) ==
    [cacheReads |-> c, storeReads |-> s, exact |-> exact, wild |-> wild]

SeenOf(trace, key) == IF key = "*" THEN trace.wild ELSE trace.exact

\* the trace after c more cache reads and s more queries, the lookup of key
\* having met seen
Saw(trace, key, seen, c, s) ==
    Trace(trace.cacheReads + c, trace.storeReads + s,
          IF key = "*" THEN trace.exact ELSE seen,
          IF key = "*" THEN seen ELSE trace.wild)

\* the policies of (coll, action) in the cache entry of a role
CachedFor(entries, roleID, coll, action) ==
    {entries[roleID].policies[i] : i \in
        {j \in 1..Len(entries[roleID].policies) :
            /\ entries[roleID].policies[j].Collection = coll
            /\ entries[roleID].policies[j].Action = action}}

\* the rows of (role, coll, action) in the table
StoredFor(rows, roleID, coll, action) ==
    {p \in rows : PolicyKey(p) = <<roleID, coll, action>>}

\* a goroutine outside LoadRolePolicies
Resting(err) == [pc |-> "idle", role |-> "", policies |-> <<>>, fetchedAt |-> 0,
                 err |-> err]

\* LoadRolePolicies, line 193: c.store.GetByRole, no lock held; at is the time
\* of the fetch
Fetched(rows, roleID, at, dbFails) ==
    IF dbFails THEN Resting(DBError)
    ELSE [pc |-> "fetched", role |-> roleID, policies |-> GetByRole(rows, roleID),
          fetchedAt |-> at, err |-> ""]

\* LoadRolePolicies, lines 198-200: c.cache.policies[roleID] = policies under
\* the write lock
Installed(entries, load) ==
    [entries EXCEPT ![load.role] = Cached(load.policies)]

\* ClearCache, lines 207-209: a new, empty map under the write lock
Cleared(entries) == [r \in DOMAIN entries |-> NotCached]

\* NewChecker: an empty cache; the table starts empty; no call is in progress
InitChk ==
    /\ store = {}
    /\ cache = [r \in Roles |-> NotCached]
    /\ chkReq = Call("NewChecker", NoUser, "", "", EmptyMap, "none", 0)
    /\ chkRes = Ret(NilResult, "")
    /\ chkData = EmptyMap
    /\ chkTrace = Trace(0, 0, NotLooked, NotLooked)
    /\ chkLoad = Resting("")
    /\ chkWrote = "" /\ chkCleared = FALSE
    /\ reqFilter = EmptyMap /\ permFilter = EmptyMap /\ fbFilter = EmptyMap
    /\ paramOffset = 0 /\ fbStart = 0 /\ fbSQL = NoText /\ fbArgs = <<>> /\ fbOp = "idle"
    /\ qFilters = <<>> /\ qStart = 1 /\ qSQL = NoText /\ qArgs = <<>> /\ qOp = "idle"
    /\ fld = [op |-> "idle"] /\ prs = [op |-> "idle"] /\ srt = [op |-> "idle"]
    /\ bld = [op |-> "idle"] /\ bldRes = [op |-> "idle"] /\ san = [op |-> "idle"]
    /\ fn = [op |-> "idle"] /\ lst = [op |-> "idle"] /\ conc = [op |-> "idle"]

\* the call returns r = [res, err, data], or panics while it writes data:
\* then nothing is returned and data is as it was handed in
Returns(req, r, trace) ==
    /\ chkReq' = [req EXCEPT !.pc = IF r.data = Panicked THEN "panicked"
                                    ELSE "returned"]
    /\ chkRes' = IF r.data = Panicked THEN Ret(NilResult, "") ELSE Ret(r.res, r.err)
    /\ chkData' = IF r.data = Panicked THEN req.data ELSE r.data
    /\ chkTrace' = trace
    /\ UNCHANGED <<store, chkLoad, chkWrote, chkCleared,
                   fbVars, qVars, fnVars, bldVars, moreVars>>

\* the call goes on with its k-th lookup at pc
GoesOn(req, pc, k, trace) ==
    /\ chkReq' = [req EXCEPT !.pc = pc, !.k = k]
    /\ chkRes' = Ret(NilResult, "")
    /\ chkData' = EmptyMap
    /\ chkTrace' = trace
    /\ UNCHANGED <<store, chkLoad, chkWrote, chkCleared,
                   fbVars, qVars, fnVars, bldVars, moreVars>>

\* what the call returns once Check has r = [res, err] and its accesses:
\* Check returns it, CheckWithData (lines 106-133) goes on to the fields
Outcome(req, r) ==
    IF req.op = "CheckWithData"
    THEN FieldsChecked(r, req.user, req.action, req.data)
    ELSE [res |-> r.res, err |-> r.err, data |-> EmptyMap]

\* Check, lines 67-101, after its k-th getPolicy returned g = [found, policy]
\* and no error: a policy ends the lookups, the first miss starts the second
Looked(req, k, g, trace) ==
    IF g.found \/ k = 2
    THEN Returns(req,
                 Outcome(req, Decide(Got(g, "", trace.cacheReads, trace.storeReads),
                                     req.user, req.collection, req.action)),
                 trace)
    ELSE GoesOn(req, "read", 2, trace)

\* Check, lines 67-69 and 75-77: the k-th getPolicy returned an error
Failed(req, k, trace) ==
    Returns(req,
            Outcome(req, Decide(Got(NotFound, LookupError(k), trace.cacheReads,
                                    trace.storeReads),
                                req.user, req.collection, req.action)),
            trace)

\* getPolicy, lines 169-180, of the k-th lookup: c is what the cache read gave;
\* an entry answers the lookup, no entry sends it to the database
ReadCache(req, k, c, key, trace) ==
    IF c.ok
    THEN Looked(req, k, c,
                Saw(trace, key,
                    Seen(cache[req.user.RoleID].ok, "cache",
                         CachedFor(cache, req.user.RoleID, key, req.action)),
                    1, 0))
    ELSE GoesOn(req, "query", k,
                Saw(trace, key, Seen(cache[req.user.RoleID].ok, "", {}), 1, 0))

\* getPolicy, lines 182-188, of the k-th lookup: g is what the query gave
Queried(req, k, g, key, trace) ==
    IF g.err
    THEN Failed(req, k,
                Saw(trace, key, Seen(SeenOf(trace, key).had, "failed", {}), 0, 1))
    ELSE Looked(req, k, g,
                Saw(trace, key,
                    Seen(SeenOf(trace, key).had, "store",
                         StoredFor(store, req.user.RoleID, key, req.action)),
                    0, 1))

\* a goroutine calls Check or CheckWithData: lines 50-63, and for a user with
\* a role the cache read of the first getPolicy (line 66)
Enter(req) ==
    /\ chkReq.pc \in {"none", "returned", "panicked"}
    /\ IF EarlyResult(req.user).done
       THEN Returns(req,
                    Outcome(req, [res |-> EarlyResult(req.user).res, err |-> "",
                                  cacheReads |-> 0, storeReads |-> 0]),
                    Trace(0, 0, NotLooked, NotLooked))
       ELSE ReadCache(req, 1,
                      getPolicyCached(cache, req.user.RoleID,
                                      LookupOrder(req.collection)[1], req.action),
                      LookupOrder(req.collection)[1],
                      Trace(0, 0, NotLooked, NotLooked))
    /\ UNCHANGED cache

\* a call of Checker.Check begins
CheckCall(user, coll, action) ==
    Enter(Call("Check", user, coll, action, EmptyMap, "none", 0))

\* a call of Checker.CheckWithData begins (line 106: it calls Check)
CheckWithDataCall(user, coll, action, data) ==
    Enter(Call("CheckWithData", user, coll, action, data, "none", 0))

\* the call in progress reads the cache for its second getPolicy (line 74)
CheckRead ==
    /\ chkReq.pc = "read"
    /\ ReadCache(chkReq, chkReq.k,
                 getPolicyCached(cache, chkReq.user.RoleID,
                                 LookupOrder(chkReq.collection)[chkReq.k],
                                 chkReq.action),
                 LookupOrder(chkReq.collection)[chkReq.k], chkTrace)
    /\ UNCHANGED cache

\* the query of the call in progress runs (line 183)
CheckQuery(dbFails) ==
    /\ chkReq.pc = "query"
    /\ Queried(chkReq, chkReq.k,
               FetchPolicy(store, chkReq.user.RoleID,
                           LookupOrder(chkReq.collection)[chkReq.k],
                           chkReq.action, dbFails),
               LookupOrder(chkReq.collection)[chkReq.k], chkTrace)
    /\ cache' = AfterQuery(cache, store, chkReq.user.RoleID, dbFails)

\* Checker.LoadRolePolicies begins: the fetch, line 193, with no lock held;
\* a failing fetch returns the error
LoadRolePolicies(roleID, dbFails) ==
    /\ chkLoad.pc = "idle"
    /\ chkLoad' = Fetched(store, roleID, 0, dbFails)
    /\ UNCHANGED <<store, cache, chkReq, chkRes, chkData, chkTrace, chkWrote, chkCleared,
                   fbVars, qVars, fnVars, bldVars, moreVars>>

\* Checker.LoadRolePolicies ends: under the write lock, lines 198-200, it
\* stores what it fetched
LoadRolePoliciesInstall ==
    /\ chkLoad.pc = "fetched"
    /\ cache' = Installed(cache, chkLoad)
    /\ chkLoad' = Resting("")
    /\ chkCleared' = FALSE
    /\ UNCHANGED <<store, chkReq, chkRes, chkData, chkTrace, chkWrote,
                   fbVars, qVars, fnVars, bldVars, moreVars>>

\* Checker.ClearCache
ClearCache ==
    /\ cache' = Cleared(cache)
    /\ chkCleared' = TRUE
    /\ UNCHANGED <<store, chkReq, chkRes, chkData, chkTrace, chkLoad, chkWrote,
                   fbVars, qVars, fnVars, bldVars, moreVars>>

\* a write of the table with the PolicyStore result w = [rows, err]; the
\* Checker hands the error on to its caller
Stored(w) ==
    /\ Cardinality(w.rows) <= MaxPolicies
    /\ store' = w.rows
    /\ chkWrote' = w.err
    /\ UNCHANGED <<cache, chkReq, chkRes, chkData, chkTrace, chkLoad, chkCleared,
                   fbVars, qVars, fnVars, bldVars, moreVars>>

\* Checker.CreatePolicy
CreatePolicy(policy, dbFails) == Stored(Create(store, policy, dbFails))

\* Checker.UpdatePolicy
UpdatePolicy(policy, dbFails) == Stored(Update(store, policy, dbFails))

\* Checker.DeletePolicy
DeletePolicy(id, dbFails) == Stored(Delete(store, id, dbFails))

\* Checker.SetPolicy
SetPolicy(roleID, coll, action, body, dbFails) ==
    Stored(Upsert(store, Policy(roleID, coll, action, body), dbFails))

DoCheck ==
    \E user \in Users, coll \in Collections, action \in Actions :
        CheckCall(user, coll, action)

DoCheckQuery == \E dbFails \in BOOLEAN : CheckQuery(dbFails)

DoLoadRolePolicies == \E r \in Roles, dbFails \in BOOLEAN : LoadRolePolicies(r, dbFails)

DoCreatePolicy == \E p \in Policies, dbFails \in BOOLEAN : CreatePolicy(p, dbFails)

DoUpdatePolicy == \E p \in Policies, dbFails \in BOOLEAN : UpdatePolicy(p, dbFails)

DoDeletePolicy == \E k \in PolicyKeys, dbFails \in BOOLEAN : DeletePolicy(k, dbFails)

DoSetPolicy ==
    \E p \in Policies, dbFails \in BOOLEAN :
        SetPolicy(p.RoleID, p.Collection, p.Action,
                  [Filter |-> p.Filter, FieldPermissions |-> p.FieldPermissions,
                   Presets |-> p.Presets], dbFails)

\* Check called while policies are written, loaded and cleared by others
NextChk ==
    \/ DoCheck
    \/ CheckRead
    \/ DoCheckQuery
    \/ DoLoadRolePolicies
    \/ LoadRolePoliciesInstall
    \/ ClearCache
    \/ DoCreatePolicy
    \/ DoUpdatePolicy
    \/ DoDeletePolicy
    \/ DoSetPolicy

SpecChk == InitChk /\ [][NextChk]_vars

\* the policies written while CheckWithData is called
DataPolicies ==
    { Policy("r1", "*", "create", b) : b \in {c \in Bodies : c.Presets # ""} }
    \cup { Policy("r1", "posts", "read", b) : b \in {c \in Bodies : c.Presets = ""} }

DoCheckWithData ==
    \E user \in {U1}, coll \in Collections, action \in Actions, data \in DataMaps :
        CheckWithDataCall(user, coll, action, data)

DoLoadDataPolicies == \E dbFails \in BOOLEAN : LoadRolePolicies("r1", dbFails)

DoSetDataPolicy ==
    \E p \in DataPolicies, dbFails \in BOOLEAN :
        SetPolicy(p.RoleID, p.Collection, p.Action,
                  [Filter |-> p.Filter, FieldPermissions |-> p.FieldPermissions,
                   Presets |-> p.Presets], dbFails)

DoDeleteDataPolicy ==
    \E p \in DataPolicies, dbFails \in BOOLEAN : DeletePolicy(PolicyKey(p), dbFails)

\* CheckWithData called while policies are written, loaded and cleared by others
NextChkData ==
    \/ DoCheckWithData
    \/ CheckRead
    \/ DoCheckQuery
    \/ DoLoadDataPolicies
    \/ LoadRolePoliciesInstall
    \/ ClearCache
    \/ DoSetDataPolicy
    \/ DoDeleteDataPolicy

SpecChkData == InitChk /\ [][NextChkData]_vars

-----------------------------------------------------------------------------
(* Reading the Checker's state *)

\* the last call of op has returned
Returned(op) == chkReq.op = op /\ chkReq.pc = "returned"

\* the last call was a Check of a user that is neither nil nor admin, and it
\* has returned
CheckedByRole ==
    Returned("Check") /\ ~chkReq.user.nil /\ chkReq.user.Role # "admin"

\* the policies the lookups of the last call met: those of the requested
\* collection and those of "*", each in the cache entry the lookup read or,
\* without an entry, in the table its query ran on
PoliciesMet == chkTrace.exact.match \cup chkTrace.wild.match

\* the lookups of the last call
Lookups == {chkTrace.exact, chkTrace.wild}

\* C4: a Check of a user whose Role is "admin" returns Allowed=true with a nil
\* filter, empty field permissions, no presets and a nil error, whatever the
\* cache and the table hold, and reads neither the cache nor the table.
C4_AdminBypass ==
    (Returned("Check") /\ ~chkReq.user.nil /\ chkReq.user.Role = "admin") =>
        /\ chkRes.err = ""
        /\ ~chkRes.res.nil
        /\ chkRes.res.Allowed
        /\ chkRes.res.Filter = Null
        /\ chkRes.res.FieldPerms = NoFieldPerms
        /\ chkRes.res.Presets = Null
        /\ chkTrace.cacheReads = 0
        /\ chkTrace.storeReads = 0

\* an admin whose role is cached without policies and has no "create" row asks
\* to create
C4_Witness ==
    /\ Returned("Check")
    /\ chkReq.user = UAdmin
    /\ chkReq.action = "create"
    /\ cache["r1"] = Cached(<<>>)
    /\ store # {}
    /\ \A p \in store : p.Action = "read" /\ p.Filter # ""
    /\ chkRes.res.Allowed

\* C5 as claimed: default deny.  For a user that is neither nil nor admin, when
\* neither a policy for (role, collection, action) nor one for (role, "*",
\* action) exists (the lookups met none, and neither the table nor the role's
\* cache entry holds one), Check returns Allowed=false with the Reason
\* "no permission for <action> on <collection>" and a nil error; and Check
\* returns Allowed=true only if one of the two policies was found.
C5_DefaultDenyNilError ==
    CheckedByRole =>
        /\ (/\ PoliciesMet = {}
            /\ \A key \in {chkReq.collection, "*"} :
                  /\ StoredFor(store, chkReq.user.RoleID, key, chkReq.action) = {}
                  /\ CachedFor(cache, chkReq.user.RoleID, key, chkReq.action) = {})
              => /\ chkRes.err = ""
                 /\ ~chkRes.res.nil
                 /\ ~chkRes.res.Allowed
                 /\ chkRes.res.Reason =
                       "no permission for " \o chkReq.action \o " on " \o chkReq.collection
        /\ chkRes.res.Allowed => PoliciesMet # {}

\* C5, amended: default deny.  For a user that is neither nil nor admin, when
\* the lookups met neither a policy for (collection, action) nor one for ("*",
\* action) and no query failed, Check returns Allowed=false with the Reason
\* "no permission for <action> on <collection>" and a nil error; when the query
\* of a lookup failed, Check returns a nil result and the error "failed to get
\* policy: ..." (first lookup) or "failed to get wildcard policy: ..." (second
\* lookup); and Check returns Allowed=true only if one of the two policies was
\* found.
C5_DefaultDeny ==
    CheckedByRole =>
        /\ (PoliciesMet = {} /\ \A l \in Lookups : l.src # "failed") =>
              /\ chkRes.err = ""
              /\ ~chkRes.res.nil
              /\ ~chkRes.res.Allowed
              /\ chkRes.res.Reason =
                    "no permission for " \o chkReq.action \o " on " \o chkReq.collection
              /\ chkRes.res.Filter = Null
        /\ chkTrace.exact.src = "failed" =>
              chkRes = Ret(NilResult, LookupError(1))
        /\ chkTrace.wild.src = "failed" =>
              chkRes = Ret(NilResult, LookupError(2))
        /\ chkRes.res.Allowed => PoliciesMet # {}

\* U1 asks to create posts while the role only has policies for "read"
C5_Witness ==
    /\ CheckedByRole
    /\ chkReq.user = U1
    /\ chkReq.action = "create"
    /\ ~cache["r1"].ok
    /\ Cardinality({p \in store : p.RoleID = "r1" /\ p.Action = "read"}) = 2
    /\ chkRes.err = ""
    /\ chkRes.res.Reason = "no permission for create on posts"
    /\ ~chkRes.res.Allowed

\* the policy the fallback order selects among those the lookups met
SelectedPolicy ==
    IF chkTrace.exact.match # {} THEN CHOOSE p \in chkTrace.exact.match : TRUE
    ELSE CHOOSE p \in chkTrace.wild.match : TRUE

\* C6: wildcard fallback order.  A granting Check has looked up the requested
\* collection; when that lookup met a policy for the collection and action, the
\* result's filter, field permissions and presets are that policy's; the "*"
\* policy of the same action is used only when it met none; for a role with a
\* cache entry and for a role without one.
C6_ExactBeforeWildcard ==
    (CheckedByRole /\ chkRes.err = "" /\ chkRes.res.Allowed) =>
        LET parsed == ParsePolicy(SelectedPolicy) IN
        /\ chkTrace.exact.src \in {"cache", "store"}
        /\ chkTrace.exact.match # {} => chkTrace.wild.src = ""
        /\ chkRes.res.FieldPerms = parsed.FieldPermissionsMap
        /\ chkRes.res.Presets = parsed.PresetsMap
        /\ chkRes.res.Filter = resolveFilterVariables(parsed.FilterMap, chkReq.user)

\* a cached role with an exact and a different "*" policy, the table holding
\* other contents: the exact policy's columns are returned
C6_Witness ==
    /\ CheckedByRole
    /\ chkReq.action = "read"
    /\ cache["r1"].ok
    /\ Len(cache["r1"].policies) = 2
    /\ cache["r1"].policies[1].Collection = "*"
    /\ cache["r1"].policies[1].Filter # ""
    /\ cache["r1"].policies[2].Collection = "posts"
    /\ cache["r1"].policies[2].Filter = ""
    /\ store = {}
    /\ chkRes.res.Allowed
    /\ chkRes.res.Filter = Null
    /\ chkRes.res.FieldPerms = FieldPerms(<<"title", "id">>, <<>>, <<>>)

\* the last call was a Check or CheckWithData of a user that is neither nil
\* nor admin, and it has returned
LookedUp ==
    /\ chkReq.op \in {"Check", "CheckWithData"} /\ chkReq.pc = "returned"
    /\ ~chkReq.user.nil /\ chkReq.user.Role # "admin"

\* C7 as claimed: when a Check of a non-admin user returns after a lookup that
\* found no cache entry and queried the table without an error, the user's role
\* has a cache entry.
C7_CheckPopulatesCache ==
    [][(/\ chkReq.pc = "query" /\ chkReq.op = "Check"
        /\ chkReq'.pc = "returned" /\ chkRes'.err = "")
          => cache'[chkReq.user.RoleID].ok]_vars

\* C7, amended: no step of Check or CheckWithData changes the cache; a lookup
\* that finds no cache entry for the role queries the table, and a lookup is
\* answered from the cache, without a query, exactly when it finds an entry,
\* so a call makes one query per lookup without an entry; a role without an
\* entry gets one only when a LoadRolePolicies of that role stores what it
\* fetched.
C7_CheckLeavesCache ==
    /\ [](LookedUp =>
            /\ \A l \in Lookups :
                  /\ l.src = "cache" <=> l.had
                  /\ (l.src # "" /\ ~l.had) => l.src \in {"store", "failed"}
            /\ chkTrace.storeReads =
                  Cardinality({k \in {"exact", "wild"} :
                                  chkTrace[k].src \in {"store", "failed"}}))
    /\ [][/\ (chkReq' # chkReq \/ chkTrace' # chkTrace) => cache' = cache
          /\ \A r \in Roles :
                (~cache[r].ok /\ cache'[r].ok) =>
                    /\ chkLoad.pc = "fetched"
                    /\ chkLoad.role = r
                    /\ chkLoad'.pc = "idle"]_vars

\* U1 was granted by the "*" policy after two queries, and r1 still has no entry
C7_Witness ==
    /\ CheckedByRole
    /\ chkReq.user = U1
    /\ chkRes.err = ""
    /\ chkRes.res.Allowed
    /\ chkTrace.storeReads = 2
    /\ ~cache["r1"].ok
    /\ \E p \in store : p.RoleID = "r1"

\* C8: cache discipline.  A lookup of a role that has a cache entry makes no
\* query, and a Check whose lookups all found an entry returns what the entry
\* alone decides, whatever the table holds; an entry changes only when a
\* LoadRolePolicies of its role stores what it fetched, or by ClearCache;
\* after a ClearCache no role has an entry until a LoadRolePolicies stores one;
\* LoadRolePolicies leaves the other roles' entries as they are and table
\* writes, failed ones as well, leave every entry as it is.
C8_CacheDiscipline ==
    /\ [](chkCleared => \A r \in Roles : ~cache[r].ok)
    /\ [][(chkCleared' /\ ~chkCleared) => \A r \in Roles : cache'[r] = NotCached]_vars
    /\ [](CheckedByRole =>
            /\ \A l \in Lookups : l.had => l.src = "cache"
            /\ (\A l \in Lookups : l.src # "" => l.had) =>
                  /\ chkTrace.storeReads = 0
                  /\ chkRes.err = ""
                  /\ chkRes.res =
                        IF PoliciesMet = {}
                        THEN NoPermission(chkReq.action, chkReq.collection)
                        ELSE PolicyResult(SelectedPolicy, chkReq.user))
    /\ [][/\ \A r \in Roles :
                cache'[r] # cache[r] =>
                    \/ /\ chkLoad.pc = "fetched" /\ chkLoad'.pc = "idle"
                       /\ chkLoad.role = r
                       /\ cache'[r] = Cached(chkLoad.policies)
                       /\ \A q \in Roles \ {r} : cache'[q] = cache[q]
                    \/ \A q \in Roles : ~cache'[q].ok
          /\ (store' # store \/ chkWrote' # chkWrote) => cache' = cache]_vars

\* the table lost the policy r1's entry still holds, r2 has an entry too, and U1
\* is granted from the entry
C8_Witness ==
    /\ CheckedByRole
    /\ chkReq.user = U1
    /\ cache["r1"].ok
    /\ cache["r2"].ok
    /\ Len(cache["r1"].policies) = 1
    /\ store = {}
    /\ chkRes.res.Allowed
    /\ chkTrace.storeReads = 0

\* the attribute a variable name stands for, the string itself when it is no
\* variable; aliases: whether $CURRENT_USER and $CURRENT_ROLE are variables too
Expected(x, user, aliases) ==
    CASE x = "$USER_ID"                     -> user.ID
      [] x = "$ROLE_ID"                     -> user.RoleID
      [] x \in {"$ROLE", "$ROLE_NAME"}      -> user.Role
      [] x = "$USERNAME"                    -> user.Username
      [] x = "$EMAIL"                       -> user.Email
      [] aliases /\ x = "$CURRENT_USER"     -> user.ID
      [] aliases /\ x = "$CURRENT_ROLE"     -> user.RoleID
      [] OTHER                              -> x

\* out is src with every string value replaced once, and nothing else changed
RECURSIVE Resolved(_, _, _, _)
Resolved(src, out, user, aliases) ==
    CASE src.t = "string" -> out = Str(Expected(src.s, user, aliases))
      [] src.t = "map" ->
           /\ out.t = "map"
           /\ Len(out.m) = Len(src.m)
           /\ \A i \in 1..Len(src.m) :
                 /\ out.m[i].k = src.m[i].k
                 /\ Resolved(src.m[i].v, out.m[i].v, user, aliases)
      [] src.t = "list" ->
           /\ out.t = "list"
           /\ Len(out.l) = Len(src.l)
           /\ \A i \in 1..Len(src.l) : Resolved(src.l[i], out.l[i], user, aliases)
      [] OTHER -> out = src

\* C9 as claimed: in the filter Check returns, the strings $USER_ID, $ROLE_ID,
\* $ROLE, $ROLE_NAME, $USERNAME and $EMAIL are replaced by the user's attribute,
\* once, and every other string, every other value and every key is unchanged.
C9_SixVariables ==
    (CheckedByRole /\ chkRes.err = "" /\ chkRes.res.Allowed) =>
        Resolved(ParsePolicy(SelectedPolicy).FilterMap, chkRes.res.Filter,
                 chkReq.user, FALSE)

\* C9, amended: the same with $CURRENT_USER (the user's ID) and $CURRENT_ROLE
\* (the user's role ID) resolved as well.
C9_VariablesResolvedOnce ==
    (CheckedByRole /\ chkRes.err = "" /\ chkRes.res.Allowed) =>
        Resolved(ParsePolicy(SelectedPolicy).FilterMap, chkRes.res.Filter,
                 chkReq.user, TRUE)

\* U1, whose Username is the text "$EMAIL", gets author_id = "U1", the key
\* "$ROLE_ID" kept, $USERNAME resolved to "$EMAIL" and left there
C9_Witness ==
    /\ CheckedByRole
    /\ chkReq.user = U1
    /\ chkRes.res.Allowed
    /\ chkRes.res.Filter # Null
    /\ Get(chkRes.res.Filter, "author_id") = Str("U1")
    /\ HasKey(chkRes.res.Filter, "$ROLE_ID")
    /\ LET in == Get(Get(chkRes.res.Filter, "$ROLE_ID"), "_in").l IN
       /\ in[1] = Str("r1")
       /\ in[4] = Str("$EMAIL")
       /\ in[5] = Str("u1@x")
       /\ in[8] = Str("$user_id")
       /\ in[10] = Num("1")
       /\ in[13].l[2] = Map(<<KV("k", Str("u1@x"))>>)

\* a key of data the field permissions reject for the action
Offending(key, perms, action) ==
    \/ contains(perms.Denied, key)
    \/ action # "read" /\ contains(perms.ReadOnly, key)
    \/ Len(perms.Allowed) > 0 /\ ~contains(perms.Allowed, key)

\* the last call was op and it is over: it returned, or it panicked
Ended(op) == chkReq.op = op /\ chkReq.pc \in {"returned", "panicked"}

\* C10: when Check allows the request, CheckWithData of a data map with an
\* offending key (in Denied; in ReadOnly while the action is not read; absent
\* from a non-empty Allowed) returns, with a nil error, Allowed=false and a
\* Reason that names an offending key, and data is as it was handed in; with no
\* offending key it returns the result of Check.
C10_FieldRejection ==
    LET allowed == IF PoliciesMet = {}
                   THEN NoPermission(chkReq.action, chkReq.collection)
                   ELSE PolicyResult(SelectedPolicy, chkReq.user)
        bad == {k \in Keys(chkReq.data) :
                    Offending(k, allowed.FieldPerms, chkReq.action)}
    IN  (/\ Ended("CheckWithData")
         /\ ~chkReq.user.nil /\ chkReq.user.Role # "admin"
         /\ chkRes.err = "" /\ allowed.Allowed) =>
            /\ chkReq.pc = "returned"
            /\ IF bad # {}
               THEN /\ ~chkRes.res.nil
                    /\ ~chkRes.res.Allowed
                    /\ \E k \in bad :
                          chkRes.res.Reason \in
                              { "field '" \o k \o "' is not allowed",
                                "field '" \o k \o "' is read-only",
                                "field '" \o k \o "' is not in allowed list" }
                    /\ chkData = chkReq.data
               ELSE chkRes.res = allowed

\* C11: presets.  After a CheckWithData that returned an allowed result without
\* an error: for action create every preset key of the result is a key of data,
\* with the caller's value when the caller supplied the key and else with the
\* preset's value, variable-resolved (every string in it that names a variable
\* replaced by the user's attribute), and every other key of data is as the
\* caller supplied it; for any other action data is as it was handed in.
C11_PresetsOnCreate ==
    (Returned("CheckWithData") /\ chkRes.err = "" /\ chkRes.res.Allowed) =>
        LET presets == chkRes.res.Presets
            given   == chkReq.data
        IN  IF chkReq.action = "create"
            THEN /\ Keys(chkData) = Keys(given) \cup Keys(presets)
                 /\ \A i, j \in 1..Len(chkData.m) :
                       chkData.m[i].k = chkData.m[j].k => i = j
                 /\ \A k \in Keys(given) : Get(chkData, k) = Get(given, k)
                 /\ \A k \in Keys(presets) \ Keys(given) :
                       Resolved(Get(presets, k), Get(chkData, k), chkReq.user, TRUE)
            ELSE chkData = given

-----------------------------------------------------------------------------
(* Checker.FilterAllowedFields *)

MaxFields == 2     \* most keys of a data map handed to FilterAllowedFields

\* FilterAllowedFields, lines 144-160: whether the loop copies the entry
KeepsField(key, perms, action) ==
    /\ ~contains(perms.Denied, key)
    /\ ~(action # "read" /\ contains(perms.ReadOnly, key))
    /\ ~(Len(perms.Allowed) > 0 /\ ~contains(perms.Allowed, key))

\* Checker.FilterAllowedFields: the map returned
FilterAllowedFields(data, perms, action) ==
    IF Len(perms.Allowed) = 0 /\ Len(perms.Denied) = 0
    THEN data
    ELSE Map(SelectSeq(data.m, LAMBDA e : KeepsField(e.k, perms, action)))

\* data maps of up to n entries over the field names, in every range order
RECURSIVE FieldSeqs(_)
FieldSeqs(n) ==
    IF n = 0 THEN {<<>>}
    ELSE FieldSeqs(n - 1) \cup
         {Append(es, KV(k, Str("v"))) :
             es \in {x \in FieldSeqs(n - 1) : Len(x) = n - 1},
             k \in {"title", "id", "secret", "owner"}}

FieldMaps(n) ==
    {Map(es) : es \in {x \in FieldSeqs(n) :
                          \A i, j \in 1..Len(x) : x[i].k = x[j].k => i = j}}

PermsUniverse ==
    {FieldPerms(a, d, r) : a \in {<<>>, <<"title", "id">>}, d \in {<<>>, <<"secret">>},
                           r \in {<<>>, <<"id">>}}

AllActions == {"create", "read", "update", "delete"}

InitFld ==
    /\ fld \in {[op |-> "new", data |-> d, perms |-> p, action |-> a,
                 out |-> EmptyMap, after |-> d] :
                    d \in FieldMaps(MaxFields), p \in PermsUniverse, a \in AllActions}
    /\ paramOffset = 0 /\ reqFilter = EmptyMap /\ permFilter = EmptyMap
    /\ fbFilter = EmptyMap /\ fbStart = 0 /\ fbSQL = NoText /\ fbArgs = <<>>
    /\ fbOp = "idle"
    /\ qFilters = <<>> /\ qStart = 1 /\ qSQL = NoText /\ qArgs = <<>> /\ qOp = "idle"
    /\ store = {} /\ cache = <<>> /\ chkReq = <<>> /\ chkRes = <<>>
    /\ chkData = EmptyMap /\ chkTrace = <<>> /\ chkLoad = <<>>
    /\ chkWrote = "" /\ chkCleared = FALSE
    /\ prs = [op |-> "idle"] /\ srt = [op |-> "idle"]
    /\ bld = [op |-> "idle"] /\ bldRes = [op |-> "idle"] /\ san = [op |-> "idle"]
    /\ fn = [op |-> "idle"] /\ lst = [op |-> "idle"] /\ conc = [op |-> "idle"]

\* a call of FilterAllowedFields; the code never writes to data
CallFilterAllowedFields ==
    /\ fld.op = "new"
    /\ fld' = [fld EXCEPT !.op = "done",
                          !.out = FilterAllowedFields(fld.data, fld.perms, fld.action)]
    /\ UNCHANGED <<fbVars, qVars, chkVars, prs, srt, san, bldVars, moreVars>>

NextFld == CallFilterAllowedFields

SpecFld == InitFld /\ [][NextFld]_vars

\* C12: FilterAllowedFields keeps a key exactly when CheckWithData's field check
\* accepts it (not in Denied; not in ReadOnly unless the action is read; in
\* Allowed when Allowed is not empty), with its value; so checkFieldPermissions
\* accepts the returned map for the same perms and action; and the input map is
\* as it was.
C12_SameRulesAsFieldCheck ==
    fld.op = "done" =>
        /\ Keys(fld.out) = {k \in Keys(fld.data) : ~Offending(k, fld.perms, fld.action)}
        /\ \A k \in Keys(fld.out) : Get(fld.out, k) = Get(fld.data, k)
        /\ checkFieldPermissions(fld.out.m, fld.perms, fld.action) = ""
        /\ fld.after = fld.data

-----------------------------------------------------------------------------
(* FilterParser.Parse *)

MaxParams == 3     \* most keys of a parameter map handed to Parse

FilterPrefix == <<"f", "i", "l", "t", "e", "r", "[">>

IsIdentifier(cs) ==
    /\ Len(cs) >= 1
    /\ cs[1] \in Lower \cup Upper \cup {"_"}
    /\ \A i \in 2..Len(cs) : cs[i] \in Lower \cup Upper \cup Digits \cup {"_"}

\* position of the first ":" of cs, 0 when there is none
FirstColon(cs) ==
    IF \E i \in 1..Len(cs) : cs[i] = ":"
    THEN CHOOSE i \in 1..Len(cs) : cs[i] = ":" /\ \A j \in 1..(i - 1) : cs[j] # ":"
    ELSE 0

NoMatch == [ok |-> FALSE, field |-> "", op |-> ""]

\* the two groups of ^filter\[([a-zA-Z_][a-zA-Z0-9_]*)(?::([a-z]+))?\]$ on the
\* text between the brackets, the colon being at position c (0: none)
MatchInner(inner, c) ==
    IF c = 0
    THEN IF IsIdentifier(inner)
         THEN [ok |-> TRUE, field |-> Render(inner), op |-> ""]
         ELSE NoMatch
    ELSE IF /\ IsIdentifier(SubSeq(inner, 1, c - 1))
            /\ c < Len(inner)
            /\ \A i \in (c + 1)..Len(inner) : inner[i] \in Lower
         THEN [ok |-> TRUE, field |-> Render(SubSeq(inner, 1, c - 1)),
               op |-> Render(SubSeq(inner, c + 1, Len(inner)))]
         ELSE NoMatch

\* filterRegex.FindStringSubmatch(key), key given by its runes
FindStringSubmatch(cs) ==
    IF /\ Len(cs) >= 8
       /\ SubSeq(cs, 1, 7) = FilterPrefix
       /\ cs[Len(cs)] = "]"
    THEN MatchInner(SubSeq(cs, 8, Len(cs) - 1),
                    FirstColon(SubSeq(cs, 8, Len(cs) - 1)))
    ELSE NoMatch

ParseOK(fs)    == [filters |-> fs, err |-> "", panic |-> FALSE]
ParseErr(msg)  == [filters |-> <<>>, err |-> msg, panic |-> FALSE]
ParsePanic     == [filters |-> <<>>, err |-> "", panic |-> TRUE]

\* Parse, lines 76-96: a matching key with its field, operator text and values
\* met with fs collected so far; Continue(fs) runs the rest of the loop
ParseMatched(allowed, field, opStr, values, fs) ==
    IF Len(allowed) > 0 /\ ~contains(allowed, field)
    THEN [ret |-> TRUE,
          res |-> ParseErr("Field '" \o field \o "' is not allowed for filtering")]
    ELSE IF opStr \notin OperatorSQLKeys
    THEN [ret |-> TRUE, res |-> ParseErr("Unknown operator '" \o opStr \o "'")]
    ELSE IF Len(values) = 0
    THEN [ret |-> TRUE, res |-> ParsePanic]
    ELSE [ret |-> FALSE, res |-> ParseOK(Append(fs, Filter(field, opStr, values[1])))]

ParseEntry(allowed, m, values, fs) ==
    IF ~m.ok THEN [ret |-> FALSE, res |-> ParseOK(fs)]
    ELSE ParseMatched(allowed, m.field, IF m.op = "" THEN "eq" ELSE m.op, values, fs)

RECURSIVE ParseLoop(_, _, _, _)
RECURSIVE ParseNext(_, _, _, _)
ParseLoop(allowed, params, i, fs) ==
    IF i > Len(params) THEN ParseOK(fs)
    ELSE ParseNext(allowed, params, i,
                   ParseEntry(allowed, FindStringSubmatch(Chars(params[i].k)),
                              params[i].v, fs))

ParseNext(allowed, params, i, step) ==
    IF step.ret THEN step.res ELSE ParseLoop(allowed, params, i + 1, step.res.filters)

\* FilterParser.Parse; params lists the map's entries in range order
Parse(allowed, params) == ParseLoop(allowed, params, 1, <<>>)

ParamUniverse ==
    { KV("filter[a]",       <<"x">>),
      KV("filter[a:gt]",    <<"100", "7">>),
      KV("filter[b:in]",    <<"p,q">>),
      KV("filter[b]",       <<>>),
      KV("filter[a:bogus]", <<"x">>),
      KV("filter[a:EQ]",    <<"x">>),
      KV("filter[1a]",      <<"x">>),
      KV("page",            <<"1">>) }

ParamMaps ==
    {ps \in SeqsUpTo(ParamUniverse, MaxParams) :
        \A i, j \in 1..Len(ps) : ps[i].k = ps[j].k => i = j}

AllowLists == {<<>>, <<"a">>}

InitPrs ==
    /\ prs \in {[op |-> "new", allowed |-> al, params |-> ps, res |-> ParseOK(<<>>)] :
                   al \in AllowLists, ps \in ParamMaps}
    /\ paramOffset = 0 /\ reqFilter = EmptyMap /\ permFilter = EmptyMap
    /\ fbFilter = EmptyMap /\ fbStart = 0 /\ fbSQL = NoText /\ fbArgs = <<>>
    /\ fbOp = "idle"
    /\ qFilters = <<>> /\ qStart = 1 /\ qSQL = NoText /\ qArgs = <<>> /\ qOp = "idle"
    /\ store = {} /\ cache = <<>> /\ chkReq = <<>> /\ chkRes = <<>>
    /\ chkData = EmptyMap /\ chkTrace = <<>> /\ chkLoad = <<>>
    /\ chkWrote = "" /\ chkCleared = FALSE
    /\ fld = [op |-> "idle"] /\ srt = [op |-> "idle"]
    /\ bld = [op |-> "idle"] /\ bldRes = [op |-> "idle"] /\ san = [op |-> "idle"]
    /\ fn = [op |-> "idle"] /\ lst = [op |-> "idle"] /\ conc = [op |-> "idle"]

CallParse ==
    /\ prs.op = "new"
    /\ prs' = [prs EXCEPT !.op = "done", !.res = Parse(prs.allowed, prs.params)]
    /\ UNCHANGED <<fbVars, qVars, chkVars, fld, srt, san, bldVars, moreVars>>

NextPrs == CallParse

SpecPrs == InitPrs /\ [][NextPrs]_vars

\* what a key says, read as the documented format filter[field] or
\* filter[field:op]: the text up to the first colon is the field, the rest the
\* operator
KeyInner(k) == SubSeq(Chars(k), 8, Len(Chars(k)) - 1)
KeyField(k) ==
    IF FirstColon(KeyInner(k)) = 0 THEN KeyInner(k)
    ELSE SubSeq(KeyInner(k), 1, FirstColon(KeyInner(k)) - 1)
KeyOp(k) ==
    IF FirstColon(KeyInner(k)) = 0 THEN "eq"
    ELSE Render(SubSeq(KeyInner(k), FirstColon(KeyInner(k)) + 1, Len(KeyInner(k))))
IsFilterKey(k) ==
    /\ Len(Chars(k)) >= 8
    /\ SubSeq(Chars(k), 1, 7) = FilterPrefix
    /\ Chars(k)[Len(Chars(k))] = "]"
    /\ IsIdentifier(KeyField(k))
FilterKeys(ps) == {i \in 1..Len(ps) : IsFilterKey(ps[i].k)}
KeyValid(al, k) ==
    /\ Len(al) = 0 \/ contains(al, Render(KeyField(k)))
    /\ KeyOp(k) \in OperatorSQLKeys

\* C13: when every filter key names an allowed field and a known operator,
\* Parse returns no error and exactly one Filter{field, op (eq when omitted),
\* first value} per filter key; when some filter key names a field outside a
\* non-empty allow-list or an operator outside the known set, Parse returns an
\* InvalidFilter error and no filters.
C13_ParseAllOrError ==
    prs.op = "done" =>
        IF \A i \in FilterKeys(prs.params) : KeyValid(prs.allowed, prs.params[i].k)
        THEN /\ prs.res.err = "" /\ ~prs.res.panic
             /\ Len(prs.res.filters) = Cardinality(FilterKeys(prs.params))
             /\ \A i \in FilterKeys(prs.params) :
                   /\ Len(prs.params[i].v) > 0
                   /\ \E j \in 1..Len(prs.res.filters) :
                       prs.res.filters[j] =
                           Filter(Render(KeyField(prs.params[i].k)),
                                  KeyOp(prs.params[i].k), prs.params[i].v[1])
        ELSE prs.res.err # "" /\ prs.res.filters = <<>>

-----------------------------------------------------------------------------
(* query.SortsToSQL *)

MaxSorts == 3      \* most sorts handed to SortsToSQL

Sort(f, d) == [Field |-> f, Direction |-> d]

SortAsc  == "ASC"
SortDesc == "DESC"

\* SortsToSQL, lines 931-937: parts[i], which stays "" when the field fails
\* sanitization
SortPart(field, direction) ==
    IF field = "" THEN "" ELSE field \o " " \o direction

\* query.SortsToSQL: the pieces strings.Join lays side by side
SortsToSQL(sorts) ==
    IF Len(sorts) = 0 THEN <<>>
    ELSE JoinPieces([i \in 1..Len(sorts) |->
                        SortPart(sanitizeIdentifier(sorts[i].Field), sorts[i].Direction)],
                    ", ")

SortUniverse ==
    { Sort("a", SortAsc), Sort("b", SortDesc), Sort("_x", SortDesc),
      Sort("1a", SortAsc), Sort("a;b", SortDesc), Sort("", SortAsc) }

InitSrt ==
    /\ srt \in {[op |-> "new", sorts |-> ss, sql |-> <<>>] :
                   ss \in SeqsUpTo(SortUniverse, MaxSorts)}
    /\ paramOffset = 0 /\ reqFilter = EmptyMap /\ permFilter = EmptyMap
    /\ fbFilter = EmptyMap /\ fbStart = 0 /\ fbSQL = NoText /\ fbArgs = <<>>
    /\ fbOp = "idle"
    /\ qFilters = <<>> /\ qStart = 1 /\ qSQL = NoText /\ qArgs = <<>> /\ qOp = "idle"
    /\ store = {} /\ cache = <<>> /\ chkReq = <<>> /\ chkRes = <<>>
    /\ chkData = EmptyMap /\ chkTrace = <<>> /\ chkLoad = <<>>
    /\ chkWrote = "" /\ chkCleared = FALSE
    /\ fld = [op |-> "idle"] /\ prs = [op |-> "idle"]
    /\ bld = [op |-> "idle"] /\ bldRes = [op |-> "idle"] /\ san = [op |-> "idle"]
    /\ fn = [op |-> "idle"] /\ lst = [op |-> "idle"] /\ conc = [op |-> "idle"]

CallSortsToSQL ==
    /\ srt.op = "new"
    /\ srt' = [srt EXCEPT !.op = "done", !.sql = SortsToSQL(srt.sorts)]
    /\ UNCHANGED <<fbVars, qVars, chkVars, fld, prs, san, bldVars, moreVars>>

NextSrt == CallSortsToSQL

\* the three compilers of identifiers into SQL text, one call of one of them
\* per behaviour
InitSQL == InitFB \/ InitQ \/ InitSrt

NextSQL == NextFB \/ NextQ \/ NextSrt

SpecSQL == InitSQL /\ [][NextSQL]_vars

\* C14: no text produced by FiltersToSQL, SortsToSQL or FilterBuilder.Build
\* holds an empty identifier: every condition of FiltersToSQL starts with a
\* non-empty field, no ORDER BY term is empty, and no piece of a compiled
\* predicate is the empty string.
C14_NoEmptyIdentifier ==
    /\ (qOp = "sql" /\ Len(qFilters) > 0) =>
          \A j \in 1..Len(SplitAnd(qSQL, <<>>)) : SplitAnd(qSQL, <<>>)[j][1] # ""
    /\ (srt.op = "done" /\ Render(srt.sql) # "") =>
          \A i \in 1..Len(srt.sql) : srt.sql[i] # ""
    /\ FBBuilt => \A i \in 1..Len(fbSQL) : fbSQL[i] # ""

-----------------------------------------------------------------------------
(* The identifier sanitizers *)

\* the names handed to the sanitizers
Names ==
    { "", "a", "b", "x", "owner", "public", "state", "_x", "_", "A1", "name",
      "user_id", "_private", "field123", "createdAt",
      "1a", "9", "123abc", "a;b", "%", "a.b", "a b", "a-", "x_1;", "p,q",
      "field-name", "id; DROP TABLE x", "field' OR '1'='1" }

InitSan ==
    /\ san \in {[op |-> "new", name |-> n, query |-> "-", perm |-> "-"] : n \in Names}
    /\ paramOffset = 0 /\ reqFilter = EmptyMap /\ permFilter = EmptyMap
    /\ fbFilter = EmptyMap /\ fbStart = 0 /\ fbSQL = NoText /\ fbArgs = <<>>
    /\ fbOp = "idle"
    /\ qFilters = <<>> /\ qStart = 1 /\ qSQL = NoText /\ qArgs = <<>> /\ qOp = "idle"
    /\ store = {} /\ cache = <<>> /\ chkReq = <<>> /\ chkRes = <<>>
    /\ chkData = EmptyMap /\ chkTrace = <<>> /\ chkLoad = <<>>
    /\ chkWrote = "" /\ chkCleared = FALSE
    /\ fld = [op |-> "idle"] /\ prs = [op |-> "idle"] /\ srt = [op |-> "idle"]
    /\ bld = [op |-> "idle"] /\ bldRes = [op |-> "idle"]
    /\ fn = [op |-> "idle"] /\ lst = [op |-> "idle"] /\ conc = [op |-> "idle"]

\* query.sanitizeIdentifier(name)
CallSanitizeQuery ==
    /\ san.op \in {"new", "perm"}
    /\ san' = [san EXCEPT !.op = IF san.op = "new" THEN "query" ELSE "both",
                          !.query = sanitizeIdentifier(san.name)]
    /\ UNCHANGED <<fbVars, qVars, chkVars, fld, prs, srt, bldVars, moreVars>>

\* permission.sanitizeIdentifier(name)
CallSanitizePerm ==
    /\ san.op \in {"new", "query"}
    /\ san' = [san EXCEPT !.op = IF san.op = "new" THEN "perm" ELSE "both",
                          !.perm = sanitizeIdentifierPerm(san.name)]
    /\ UNCHANGED <<fbVars, qVars, chkVars, fld, prs, srt, bldVars, moreVars>>

NextSan == CallSanitizeQuery \/ CallSanitizePerm

SpecSan == InitSan /\ [][NextSan]_vars

\* C15: each identifier sanitizer returns its input when the input matches
\* ^[A-Za-z_][A-Za-z0-9_]*$ and "" otherwise, so never a string other than the
\* input or "".
C15_SanitizerAllOrNothing ==
    /\ san.op \in {"query", "both"} =>
          san.query = IF IsIdentifier(Chars(san.name)) THEN san.name ELSE ""
    /\ san.op \in {"perm", "both"} =>
          san.perm = IF IsIdentifier(Chars(san.name)) THEN san.name ELSE ""

-----------------------------------------------------------------------------
(* Claims on the groups of the FilterBuilder *)

\* the predicates Build returns for the maps of a list, one after the other on
\* the same builder starting at paramOffset off, those that are empty left out:
\* [texts, args]
RECURSIVE ChildPredicates(_, _)
ChildPredicates(children, off) ==
    IF children = <<>> THEN [texts |-> <<>>, args |-> <<>>]
    ELSE IF Head(children).t # "map" THEN ChildPredicates(Tail(children), off)
    ELSE LET b    == Build(Head(children), off)
             rest == ChildPredicates(Tail(children), b.off)
         IN  IF b.sql = <<>> THEN rest
             ELSE [texts |-> <<b.sql>> \o rest.texts, args |-> b.args \o rest.args]

Parenthesized(text) == <<"(">> \o text \o <<")">>

RECURSIVE EachParenthesized(_)
EachParenthesized(texts) ==
    IF texts = <<>> THEN <<>>
    ELSE <<Parenthesized(Head(texts))>> \o EachParenthesized(Tail(texts))

\* a Build of a map whose only key is the group g and whose value is a list
\* with at least one child that compiles to something
GroupBuilt(g) ==
    /\ FBBuilt
    /\ Len(fbFilter.m) = 1
    /\ fbFilter.m[1].k = g
    /\ fbFilter.m[1].v.t = "list"
    /\ ChildPredicates(fbFilter.m[1].v.l, fbStart).texts # <<>>

\* C16: an _and group compiles to the conditions of its children, in child
\* order, joined with " AND " inside one pair of parentheses, the placeholders
\* numbered on from the builder's offset and the args in the same order;
\* {"_and":[{"a":1},{"b":2}]} built at offset k-1 gives (a = $k AND b = $k+1)
\* with args [1, 2].
C16_AndGroup ==
    /\ GroupBuilt("_and") =>
          /\ fbSQL = Parenthesized(
                        JoinTexts(ChildPredicates(fbFilter.m[1].v.l, fbStart).texts,
                                  " AND "))
          /\ fbArgs = ChildPredicates(fbFilter.m[1].v.l, fbStart).args
          /\ PhNums(fbSQL) = [i \in 1..Len(fbArgs) |-> fbStart + i]
    /\ (FBBuilt /\ fbFilter = AndExample) =>
          /\ Render(fbSQL) = "(a = " \o Ph(fbStart + 1) \o " AND b = "
                                \o Ph(fbStart + 2) \o ")"
          /\ fbArgs = <<Num("1"), Num("2")>>

\* C16 witness: the example group compiled by a builder that starts at a
\* non-zero offset
C16_Witness ==
    /\ fbOp = "build_request"
    /\ fbFilter = AndExample
    /\ fbStart = MaxStart
    /\ Render(fbSQL) = "(a = " \o Ph(MaxStart + 1) \o " AND b = " \o Ph(MaxStart + 2) \o ")"

\* C17: an _or group compiles each child that yields a condition to its own
\* conditions joined with " AND " inside parentheses, joins the children with
\* " OR " in child order and wraps the whole in parentheses, placeholders
\* numbered on from the builder's offset; {"_or":[{"a":1},{"a":2}]} built at
\* offset k-1 gives ((a = $k) OR (a = $k+1)) with args [1, 2].
C17_OrGroup ==
    /\ GroupBuilt("_or") =>
          /\ fbSQL = Parenthesized(
                        JoinTexts(EachParenthesized(
                                     ChildPredicates(fbFilter.m[1].v.l, fbStart).texts),
                                  " OR "))
          /\ fbArgs = ChildPredicates(fbFilter.m[1].v.l, fbStart).args
          /\ PhNums(fbSQL) = [i \in 1..Len(fbArgs) |-> fbStart + i]
    /\ (FBBuilt /\ fbFilter = OrExample) =>
          /\ Render(fbSQL) = "((a = " \o Ph(fbStart + 1) \o ") OR (a = "
                                \o Ph(fbStart + 2) \o "))"
          /\ fbArgs = <<Num("1"), Num("2")>>

\* C17 witness: an _or group one of whose children holds two conditions, so
\* that an AND stands inside a child
C17_Witness ==
    /\ GroupBuilt("_or")
    /\ Len(ChildPredicates(fbFilter.m[1].v.l, fbStart).texts) = 2
    /\ \E i \in 1..Len(fbSQL) : fbSQL[i] = " AND "
    /\ \E i \in 1..Len(fbSQL) : fbSQL[i] = " OR "

-----------------------------------------------------------------------------
(* Claims on what the FilterBuilder leaves out *)

KnownOps ==
    CompareOps \cup PatternOps
    \cup {"_in", "_nin", "_not_in", "_null", "_is_null", "_nnull", "_is_not_null",
          "_between"}

\* an operator entry that is unknown or whose value has the wrong shape
Inert(e) ==
    \/ e.k \notin KnownOps
    \/ e.k \in {"_in", "_nin", "_not_in"} /\ ~(e.v.t = "list" /\ Len(e.v.l) > 0)
    \/ e.k = "_between" /\ ~(e.v.t = "list" /\ Len(e.v.l) = 2)
    \/ e.k \in {"_null", "_is_null"} /\ e.v.t # "bool"

RECURSIVE SumSeq(_)
SumSeq(ns) == IF ns = <<>> THEN 0 ELSE Head(ns) + SumSeq(Tail(ns))

\* the conditions a filter map should compile to: one per field with a plain
\* value, one per operator that is not inert, those of the map children of a
\* group; with only = "between", the _between conditions among them
RECURSIVE LiveConditions(_, _)
LiveConditions(mp, only) ==
    SumSeq([i \in 1..Len(mp.m) |->
        CASE mp.m[i].k \in {"_and", "_or"} ->
                IF mp.m[i].v.t = "list"
                THEN SumSeq([j \in 1..Len(mp.m[i].v.l) |->
                        IF mp.m[i].v.l[j].t = "map"
                        THEN LiveConditions(mp.m[i].v.l[j], only) ELSE 0])
                ELSE 0
          [] mp.m[i].v.t = "map" ->
                Len(SelectSeq(mp.m[i].v.m,
                              LAMBDA e : ~Inert(e) /\ (only = "between" => e.k = "_between")))
          [] OTHER -> IF only = "between" THEN 0 ELSE 1])

\* whether some operator entry of the filter map is inert
RECURSIVE HasInert(_)
HasInert(mp) ==
    \E i \in 1..Len(mp.m) :
        CASE mp.m[i].k \in {"_and", "_or"} ->
                /\ mp.m[i].v.t = "list"
                /\ \E j \in 1..Len(mp.m[i].v.l) :
                      mp.m[i].v.l[j].t = "map" /\ HasInert(mp.m[i].v.l[j])
          [] mp.m[i].v.t = "map" -> \E j \in 1..Len(mp.m[i].v.m) : Inert(mp.m[i].v.m[j])
          [] OTHER -> FALSE

Connectives == {" AND ", " OR "}

\* no parenthesis or connective of the text stands next to a missing operand
NoEmptyOperand(text) ==
    \A i \in 1..Len(text) :
        /\ text[i] = "(" => i < Len(text) /\ text[i + 1] \notin Connectives \cup {")"}
        /\ text[i] \in Connectives =>
              /\ i > 1 /\ text[i - 1] \notin Connectives \cup {"("}
              /\ i < Len(text) /\ text[i + 1] \notin Connectives \cup {")"}

\* C18: an operator that is unknown or has a value of the wrong shape adds no
\* condition, no arg and no placeholder number; a field or group left without
\* conditions leaves nothing in the text, not even parentheses; and Build
\* returns the empty text with no args when no condition remains.
C18_InertOperatorsOmitted ==
    FBBuilt =>
        /\ LiveConditions(fbFilter, "all") = 0 =>
              fbSQL = <<>> /\ fbArgs = <<>> /\ paramOffset = fbStart
        /\ LiveConditions(fbFilter, "all") > 0 =>
              Len(SelectSeq(fbSQL, LAMBDA x : x \in Connectives)) =
                 LiveConditions(fbFilter, "all") - 1 + LiveConditions(fbFilter, "between")
        /\ NoEmptyOperand(fbSQL)
        /\ PhNums(fbSQL) = [i \in 1..Len(fbArgs) |-> fbStart + i]
        /\ paramOffset = fbStart + Len(fbArgs)

\* C18 witness: an operator map with five inert operators around one _eq,
\* compiled to the single condition of the _eq
C18_Witness ==
    /\ fbOp = "build_request"
    /\ fbFilter = MixedShapes
    /\ HasInert(fbFilter)
    /\ fbSQL = <<"a", " = ", Ph(fbStart + 1)>>
    /\ fbArgs = <<Num("1")>>
    /\ paramOffset = fbStart + 1

-----------------------------------------------------------------------------
(* query.Builder *)

MaxBuilderOffset == 5   \* BuildSelect is not called once paramOffset is beyond this

Pagination(page, limit, offset) == [Page |-> page, Limit |-> limit, Offset |-> offset]

DefaultPagination == Pagination(1, 20, 0)

\* NewBuilder(tableName)
NewBuilder(tableName) ==
    [tableName   |-> tableName,
     selectCols  |-> <<"*">>,
     filters     |-> <<>>,
     sorts       |-> <<>>,
     pagination  |-> DefaultPagination,
     args        |-> <<>>,
     paramOffset |-> 1]

\* Builder.Select(cols...)
Select(b, cols) == IF Len(cols) > 0 THEN [b EXCEPT !.selectCols = cols] ELSE b
\* Builder.Where(filters)
Where(b, filters) == [b EXCEPT !.filters = filters]
\* Builder.OrderBy(sorts)
OrderBy(b, sorts) == [b EXCEPT !.sorts = sorts]
\* Builder.Paginate(p)
Paginate(b, p) == [b EXCEPT !.pagination = p]

\* BuildSelect / BuildCount: whether the WHERE clause is written, where being
\* what FiltersToSQL returned
HasWhere(filters, where) == Len(filters) > 0 /\ Render(where.sql) # ""

WhereClause(filters, where) ==
    IF HasWhere(filters, where) THEN <<" WHERE ">> \o where.sql ELSE <<>>

WhereArgs(filters, where) ==
    IF HasWhere(filters, where) THEN where.args ELSE <<>>

\* BuildSelect, lines 121-128; order being what SortsToSQL returned
OrderClause(sorts, order) ==
    IF Len(sorts) > 0 /\ Render(order) # "" THEN <<" ORDER BY ">> \o order ELSE <<>>

\* fmt.Sprintf(" LIMIT %d OFFSET %d", ...)
LimitClause(p) == <<" LIMIT ", ToString(p.Limit), " OFFSET ", ToString(p.Offset)>>

\* BuildSelect writing the ORDER BY clause before the WHERE clause
BuildSelectOrderFirst(b) ==
    [sql  |-> <<"SELECT ">> \o JoinPieces(b.selectCols, ", ") \o <<" FROM ", b.tableName>>
              \o OrderClause(b.sorts, SortsToSQL(b.sorts))
              \o WhereClause(b.filters, FiltersToSQL(b.filters, b.paramOffset))
              \o LimitClause(b.pagination),
     args |-> WhereArgs(b.filters, FiltersToSQL(b.filters, b.paramOffset)),
     b    |-> [b EXCEPT !.paramOffset =
                  @ + Len(WhereArgs(b.filters, FiltersToSQL(b.filters, b.paramOffset)))]]

\* Builder.BuildSelect: the text, the args and the builder afterwards
BuildSelect(b) ==
    [sql  |-> <<"SELECT ">> \o JoinPieces(b.selectCols, ", ") \o <<" FROM ", b.tableName>>
              \o WhereClause(b.filters, FiltersToSQL(b.filters, b.paramOffset))
              \o OrderClause(b.sorts, SortsToSQL(b.sorts))
              \o LimitClause(b.pagination),
     args |-> WhereArgs(b.filters, FiltersToSQL(b.filters, b.paramOffset)),
     b    |-> [b EXCEPT !.paramOffset =
                  @ + Len(WhereArgs(b.filters, FiltersToSQL(b.filters, b.paramOffset)))]]

\* BuildCount numbering its placeholders from the builder's paramOffset
BuildCountFromOffset(b) ==
    [sql  |-> <<"SELECT COUNT(*) FROM ", b.tableName>>
              \o WhereClause(b.filters, FiltersToSQL(b.filters, b.paramOffset)),
     args |-> WhereArgs(b.filters, FiltersToSQL(b.filters, b.paramOffset)),
     b    |-> b]

\* Builder.BuildCount: the text, the args and the builder afterwards
BuildCount(b) ==
    [sql  |-> <<"SELECT COUNT(*) FROM ", b.tableName>>
              \o WhereClause(b.filters, FiltersToSQL(b.filters, 1)),
     args |-> WhereArgs(b.filters, FiltersToSQL(b.filters, 1)),
     b    |-> b]

Tables == {"products"}

ColumnLists == {<<>>, <<"id", "name">>}

BuilderFilters ==
    { <<>>,
      <<Filter("status", "eq", "active"), Filter("price", "gt", "100")>>,
      <<Filter("a", "in", "p,q"), Filter("b", "null", "x")>>,
      <<Filter("1a", "lte", "x")>> }

BuilderSorts ==
    { <<>>,
      <<Sort("created_at", SortDesc)>>,
      <<Sort("1a", SortAsc)>>,
      <<Sort("a", SortAsc), Sort("a;b", SortDesc)>> }

Paginations == {DefaultPagination, Pagination(2, 10, 10)}

InitBld ==
    /\ bld \in {NewBuilder(t) : t \in Tables}
    /\ bldRes = [op |-> "new"]
    /\ paramOffset = 0 /\ reqFilter = EmptyMap /\ permFilter = EmptyMap
    /\ fbFilter = EmptyMap /\ fbStart = 0 /\ fbSQL = NoText /\ fbArgs = <<>>
    /\ fbOp = "idle"
    /\ qFilters = <<>> /\ qStart = 1 /\ qSQL = NoText /\ qArgs = <<>> /\ qOp = "idle"
    /\ store = {} /\ cache = <<>> /\ chkReq = <<>> /\ chkRes = <<>>
    /\ chkData = EmptyMap /\ chkTrace = <<>> /\ chkLoad = <<>>
    /\ chkWrote = "" /\ chkCleared = FALSE
    /\ fld = [op |-> "idle"] /\ prs = [op |-> "idle"] /\ srt = [op |-> "idle"]
    /\ san = [op |-> "idle"]
    /\ fn = [op |-> "idle"] /\ lst = [op |-> "idle"] /\ conc = [op |-> "idle"]

\* a Build* call: what it returned, the builder it was called on and the
\* builder it left
Built(op, r) ==
    /\ bldRes' = [op |-> op, sql |-> r.sql, args |-> r.args, before |-> bld, after |-> r.b]
    /\ bld' = r.b

\* the chained setters: the builder changes, the last Build* result stays
DoSelect ==
    /\ \E cols \in ColumnLists : bld' = Select(bld, cols)
    /\ UNCHANGED <<bldRes, fbVars, qVars, chkVars, fnVars, moreVars>>

DoWhere ==
    /\ \E fs \in BuilderFilters : bld' = Where(bld, fs)
    /\ UNCHANGED <<bldRes, fbVars, qVars, chkVars, fnVars, moreVars>>

DoOrderBy ==
    /\ \E ss \in BuilderSorts : bld' = OrderBy(bld, ss)
    /\ UNCHANGED <<bldRes, fbVars, qVars, chkVars, fnVars, moreVars>>

DoPaginate ==
    /\ \E p \in Paginations : bld' = Paginate(bld, p)
    /\ UNCHANGED <<bldRes, fbVars, qVars, chkVars, fnVars, moreVars>>

DoBuildSelect ==
    /\ bld.paramOffset <= MaxBuilderOffset
    /\ Built("select", BuildSelect(bld))
    /\ UNCHANGED <<fbVars, qVars, chkVars, fnVars, moreVars>>

DoBuildCount ==
    /\ Built("count", BuildCount(bld))
    /\ UNCHANGED <<fbVars, qVars, chkVars, fnVars, moreVars>>

NextBld ==
    \/ DoSelect \/ DoWhere \/ DoOrderBy \/ DoPaginate
    \/ DoBuildSelect \/ DoBuildCount

SpecBld == InitBld /\ [][NextBld]_vars

-----------------------------------------------------------------------------
(* Claims on the Builder *)

\* the position of the first piece of the text equal to p, 0 when there is none
IndexOf(text, p) ==
    IF \E i \in 1..Len(text) : text[i] = p
    THEN CHOOSE i \in 1..Len(text) : text[i] = p /\ \A j \in 1..(i - 1) : text[j] # p
    ELSE 0

\* the pieces of a statement after " WHERE " and before " ORDER BY " / " LIMIT "
WherePart(text) ==
    IF IndexOf(text, " WHERE ") = 0 THEN <<>>
    ELSE SubSeq(text, IndexOf(text, " WHERE ") + 1,
                IF IndexOf(text, " ORDER BY ") > 0 THEN IndexOf(text, " ORDER BY ") - 1
                ELSE IF IndexOf(text, " LIMIT ") > 0 THEN IndexOf(text, " LIMIT ") - 1
                ELSE Len(text))

ExampleFilters == <<Filter("status", "eq", "active"), Filter("price", "gt", "100")>>

\* C19: BuildSelect on a builder whose paramOffset is still 1 emits SELECT
\* <cols> FROM <table>, then WHERE exactly when the filter list is non-empty,
\* then ORDER BY only when the sort list is non-empty, then LIMIT <Limit>
\* OFFSET <Offset>, with placeholders $1.. and the filters' args in filter
\* order; the documented example gives the documented statement.
C19_SelectOnFreshBuilder ==
    (bldRes.op = "select" /\ bldRes.before.paramOffset = 1) =>
        /\ SubSeq(bldRes.sql, 1, Len(bldRes.before.selectCols) * 2 + 2) =
              <<"SELECT ">> \o JoinPieces(bldRes.before.selectCols, ", ")
              \o <<" FROM ", bldRes.before.tableName>>
        /\ IndexOf(bldRes.sql, " WHERE ") > 0 <=> Len(bldRes.before.filters) > 0
        /\ IndexOf(bldRes.sql, " WHERE ") > 0 =>
              IndexOf(bldRes.sql, " WHERE ") = Len(bldRes.before.selectCols) * 2 + 3
        /\ IndexOf(bldRes.sql, " ORDER BY ") > 0 =>
              /\ Len(bldRes.before.sorts) > 0
              /\ IndexOf(bldRes.sql, " ORDER BY ") > IndexOf(bldRes.sql, " WHERE ")
              /\ IndexOf(bldRes.sql, " ORDER BY ") > IndexOf(bldRes.sql, " FROM ") + 1
        /\ SubSeq(bldRes.sql, Len(bldRes.sql) - 3, Len(bldRes.sql)) =
              <<" LIMIT ", ToString(bldRes.before.pagination.Limit),
                " OFFSET ", ToString(bldRes.before.pagination.Offset)>>
        /\ IndexOf(bldRes.sql, " LIMIT ") = Len(bldRes.sql) - 3
        /\ PhNums(bldRes.sql) = [i \in 1..Len(bldRes.args) |-> i]
        /\ Len(bldRes.args) = SumArgCount(bldRes.before.filters)
        /\ bldRes.args = FiltersToSQL(bldRes.before.filters, 1).args
        /\ ( /\ bldRes.before.tableName = "products"
             /\ bldRes.before.selectCols = <<"*">>
             /\ bldRes.before.filters = ExampleFilters
             /\ bldRes.before.sorts = <<Sort("created_at", SortDesc)>>
             /\ bldRes.before.pagination = Pagination(2, 10, 10) ) =>
              /\ Render(bldRes.sql) =
                    "SELECT * FROM products WHERE status = $1 AND price > $2"
                    \o " ORDER BY created_at DESC LIMIT 10 OFFSET 10"
              /\ bldRes.args = <<"active", "100">>

\* C19 witness: the documented example built on a builder that has built
\* nothing before
C19_Witness ==
    /\ bldRes.op = "select"
    /\ bldRes.before =
          Paginate(OrderBy(Where(NewBuilder("products"), ExampleFilters),
                           <<Sort("created_at", SortDesc)>>),
                   Pagination(2, 10, 10))
    /\ Len(bldRes.sql) > 0
    /\ bldRes.args = <<"active", "100">>

\* C20: BuildCount emits SELECT COUNT(*) FROM <table> and, when there are
\* filters, the WHERE conditions and args BuildSelect gives for the same
\* filters on a builder at offset 1; its placeholders start at $1 whatever the
\* builder's paramOffset; it emits no ORDER BY, LIMIT or OFFSET; the builder
\* is the same after the call.
C20_CountFromOne ==
    bldRes.op = "count" =>
        /\ bldRes.sql =
              <<"SELECT COUNT(*) FROM ", bldRes.before.tableName>>
              \o (IF Len(bldRes.before.filters) > 0
                  THEN <<" WHERE ">>
                       \o WherePart(BuildSelect([bldRes.before EXCEPT !.paramOffset = 1]).sql)
                  ELSE <<>>)
        /\ bldRes.args = BuildSelect([bldRes.before EXCEPT !.paramOffset = 1]).args
        /\ PhNums(bldRes.sql) = [i \in 1..Len(bldRes.args) |-> i]
        /\ \A i \in 1..Len(bldRes.sql) :
              bldRes.sql[i] \notin {" ORDER BY ", " LIMIT ", " OFFSET "}
        /\ bldRes.after = bldRes.before

\* C20 witness: a count on a builder that BuildSelect has moved beyond offset
\* 1, with sorts set and two args
C20_Witness ==
    /\ bldRes.op = "count"
    /\ bldRes.before.paramOffset > 1
    /\ Len(bldRes.before.sorts) > 0
    /\ bldRes.args = <<"active", "100">>
    /\ bld = bldRes.before

-----------------------------------------------------------------------------
(* query.BuildInsert and query.BuildUpdate *)

MaxCols == 3       \* most keys of a data map handed to BuildInsert / BuildUpdate

\* BuildInsert, lines 177-185: the entries the loop keeps, in range order
InsertKept(data) == SelectSeq(data, LAMBDA e : sanitizeIdentifier(e.k) # "")

\* BuildInsert numbering a placeholder by the position of its key in the map
BuildInsertByPosition(tableName, data) ==
    [sql  |-> <<"INSERT INTO ", tableName, " (">>
              \o JoinPieces([i \in 1..Len(InsertKept(data)) |-> InsertKept(data)[i].k], ", ")
              \o <<") VALUES (">>
              \o JoinPieces(SelectSeq([i \in 1..Len(data) |->
                                          IF sanitizeIdentifier(data[i].k) # ""
                                          THEN Ph(i) ELSE ""],
                                      LAMBDA x : x # ""), ", ")
              \o <<") RETURNING *">>,
     args |-> [i \in 1..Len(InsertKept(data)) |-> InsertKept(data)[i].v]]

\* query.BuildInsert: [sql, args]
BuildInsert(tableName, data) ==
    [sql  |-> <<"INSERT INTO ", tableName, " (">>
              \o JoinPieces([i \in 1..Len(InsertKept(data)) |-> InsertKept(data)[i].k], ", ")
              \o <<") VALUES (">>
              \o JoinPieces([i \in 1..Len(InsertKept(data)) |-> Ph(i)], ", ")
              \o <<") RETURNING *">>,
     args |-> [i \in 1..Len(InsertKept(data)) |-> InsertKept(data)[i].v]]

\* BuildUpdate, lines 202-213: the entries the loop keeps, in range order
UpdateKept(idColumn, data) ==
    SelectSeq(data, LAMBDA e : sanitizeIdentifier(e.k) # "" /\ e.k # idColumn)

\* the SET clauses of the entries kept
SetClauses(kept) == [i \in 1..Len(kept) |-> <<kept[i].k, " = ", Ph(i)>>]

\* BuildUpdate that does not skip the id column
BuildUpdateWithID(tableName, idColumn, id, data) ==
    [sql  |-> <<"UPDATE ", tableName, " SET ">>
              \o JoinTexts(SetClauses(InsertKept(data)), ", ")
              \o <<" WHERE ", idColumn, " = ", Ph(Len(InsertKept(data)) + 1),
                   " RETURNING *">>,
     args |-> Append([i \in 1..Len(InsertKept(data)) |-> InsertKept(data)[i].v], id)]

\* query.BuildUpdate: [sql, args]
BuildUpdate(tableName, idColumn, id, data) ==
    [sql  |-> <<"UPDATE ", tableName, " SET ">>
              \o JoinTexts(SetClauses(UpdateKept(idColumn, data)), ", ")
              \o <<" WHERE ", idColumn, " = ", Ph(Len(UpdateKept(idColumn, data)) + 1),
                   " RETURNING *">>,
     args |-> Append([i \in 1..Len(UpdateKept(idColumn, data)) |->
                         UpdateKept(idColumn, data)[i].v], id)]

\* data maps: keys that pass and fail sanitization, the id column and a key
\* that differs from it by case; each key with a value of its own
RowKeys == {"name", "id", "ID", "1a", "a;b"}

RowMaps ==
    {d \in SeqsUpTo({KV(k, "v:" \o k) : k \in RowKeys}, MaxCols) :
        \A i, j \in 1..Len(d) : d[i].k = d[j].k => i = j}

InitDML ==
    /\ fn \in {[op |-> "new", tableName |-> "products", idColumn |-> "id", id |-> "7",
                data |-> d, sql |-> <<>>, args |-> <<>>] : d \in RowMaps}
    /\ lst = [op |-> "idle"] /\ conc = [op |-> "idle"]
    /\ paramOffset = 0 /\ reqFilter = EmptyMap /\ permFilter = EmptyMap
    /\ fbFilter = EmptyMap /\ fbStart = 0 /\ fbSQL = NoText /\ fbArgs = <<>>
    /\ fbOp = "idle"
    /\ qFilters = <<>> /\ qStart = 1 /\ qSQL = NoText /\ qArgs = <<>> /\ qOp = "idle"
    /\ store = {} /\ cache = <<>> /\ chkReq = <<>> /\ chkRes = <<>>
    /\ chkData = EmptyMap /\ chkTrace = <<>> /\ chkLoad = <<>>
    /\ chkWrote = "" /\ chkCleared = FALSE
    /\ fld = [op |-> "idle"] /\ prs = [op |-> "idle"] /\ srt = [op |-> "idle"]
    /\ bld = [op |-> "idle"] /\ bldRes = [op |-> "idle"] /\ san = [op |-> "idle"]

\* what a call left in fn
Called(op, r) == fn' = [fn EXCEPT !.op = op, !.sql = r.sql, !.args = r.args]

CallBuildInsert ==
    /\ fn.op = "new"
    /\ Called("insert", BuildInsert(fn.tableName, fn.data))
    /\ UNCHANGED <<fbVars, qVars, chkVars, fnVars, bldVars, lst, conc>>

CallBuildUpdate ==
    /\ fn.op = "new"
    /\ Called("update", BuildUpdate(fn.tableName, fn.idColumn, fn.id, fn.data))
    /\ UNCHANGED <<fbVars, qVars, chkVars, fnVars, bldVars, lst, conc>>

NextDML == CallBuildInsert \/ CallBuildUpdate

SpecDML == InitDML /\ [][NextDML]_vars

\* the pieces of a text strictly between its pieces a and b, separators removed
ItemsBetween(text, a, b) ==
    SelectSeq(SubSeq(text, IndexOf(text, a) + 1, IndexOf(text, b) - 1),
              LAMBDA x : x # ", ")

\* the value of key k in a data map
ValueOf(data, k) == data[CHOOSE i \in 1..Len(data) : data[i].k = k].v

\* C21: BuildInsert lists exactly the keys of data that pass sanitization,
\* each once; its placeholders are $1..$n, one per column; args[i] is the
\* value of the i-th listed column, in whatever order the map is ranged; the
\* statement ends with RETURNING *.
C21_InsertColumnsAligned ==
    fn.op = "insert" =>
        /\ {ItemsBetween(fn.sql, " (", ") VALUES (")[i] :
               i \in 1..Len(ItemsBetween(fn.sql, " (", ") VALUES ("))} =
              {fn.data[i].k : i \in {j \in 1..Len(fn.data) :
                                        IsIdentifier(Chars(fn.data[j].k))}}
        /\ Len(ItemsBetween(fn.sql, " (", ") VALUES (")) =
              Cardinality({j \in 1..Len(fn.data) : IsIdentifier(Chars(fn.data[j].k))})
        /\ ItemsBetween(fn.sql, ") VALUES (", ") RETURNING *") =
              [i \in 1..Len(ItemsBetween(fn.sql, " (", ") VALUES (")) |-> Ph(i)]
        /\ Len(fn.args) = Len(ItemsBetween(fn.sql, " (", ") VALUES ("))
        /\ \A i \in 1..Len(fn.args) :
              fn.args[i] = ValueOf(fn.data, ItemsBetween(fn.sql, " (", ") VALUES (")[i])
        /\ fn.sql[Len(fn.sql)] = ") RETURNING *"
        /\ SubSeq(fn.sql, 1, 3) = <<"INSERT INTO ", fn.tableName, " (">>

\* C21 witness: a key that fails sanitization ranged before two that pass
C21_Witness ==
    /\ fn.op = "insert"
    /\ Len(fn.data) = 3
    /\ ~IsIdentifier(Chars(fn.data[1].k))
    /\ Len(fn.args) = 2
    /\ ItemsBetween(fn.sql, ") VALUES (", ") RETURNING *") = <<Ph(1), Ph(2)>>

\* the SET list of an UPDATE text: its clauses as <<column, placeholder>>
SetColumns(text) ==
    LET body == SubSeq(text, 4, IndexOf(text, " WHERE ") - 1)
        idx  == {i \in 1..Len(body) : body[i] = " = "}
    IN  {<<body[i - 1], body[i + 1]>> : i \in idx}

\* C22: BuildUpdate sets no column equal to the id column and no key that
\* fails sanitization; with m keys left the SET placeholders are $1..$m, each
\* bound to the value of its column, the WHERE placeholder is $(m+1), args has
\* m+1 elements and the last one is id.
C22_UpdateSkipsPrimaryKey ==
    fn.op = "update" =>
        /\ {c[1] : c \in SetColumns(fn.sql)} =
              {fn.data[i].k : i \in {j \in 1..Len(fn.data) :
                                        /\ IsIdentifier(Chars(fn.data[j].k))
                                        /\ fn.data[j].k # fn.idColumn}}
        /\ {c[2] : c \in SetColumns(fn.sql)} = {Ph(i) : i \in 1..(Len(fn.args) - 1)}
        /\ Cardinality(SetColumns(fn.sql)) = Len(fn.args) - 1
        /\ \A c \in SetColumns(fn.sql) : fn.args[PhNum(c[2])] = ValueOf(fn.data, c[1])
        /\ SubSeq(fn.sql, IndexOf(fn.sql, " WHERE "), Len(fn.sql)) =
              <<" WHERE ", fn.idColumn, " = ", Ph(Len(fn.args)), " RETURNING *">>
        /\ PhNums(fn.sql) = [i \in 1..Len(fn.args) |-> i]
        /\ fn.args[Len(fn.args)] = fn.id

\* C22 witness: data holding the id column and a key that fails sanitization
\* next to one column that is set
C22_Witness ==
    /\ fn.op = "update"
    /\ \E i \in 1..Len(fn.data) : fn.data[i].k = fn.idColumn
    /\ \E i \in 1..Len(fn.data) : ~IsIdentifier(Chars(fn.data[i].k))
    /\ Len(fn.args) = 2

-----------------------------------------------------------------------------
(* Go's int (64 bits) and strconv.Atoi *)

\* a natural number is the sequence of its decimal digits, lowest first, with
\* no leading zero; an int is [neg, mag]
RECURSIVE FromNat(_)
FromNat(n) == IF n = 0 THEN <<>> ELSE <<n % 10>> \o FromNat(n \div 10)

RECURSIVE ToNat(_)
ToNat(d) == IF d = <<>> THEN 0 ELSE Head(d) + 10 * ToNat(Tail(d))

RECURSIVE Norm(_)
Norm(d) ==
    IF d # <<>> /\ d[Len(d)] = 0 THEN Norm(SubSeq(d, 1, Len(d) - 1)) ELSE d

\* a < b, both without leading zeros
Less(a, b) ==
    \/ Len(a) < Len(b)
    \/ /\ Len(a) = Len(b)
       /\ \E i \in 1..Len(a) : a[i] < b[i] /\ \A j \in (i + 1)..Len(a) : a[j] = b[j]

\* a * k + carry, k a small number
RECURSIVE MulSmall(_, _, _)
MulSmall(a, k, carry) ==
    IF a = <<>> THEN FromNat(carry)
    ELSE <<(Head(a) * k + carry) % 10>>
         \o MulSmall(Tail(a), k, (Head(a) * k + carry) \div 10)

\* a - b - borrow, for a >= b + borrow, digit by digit
RECURSIVE SubDigits(_, _, _)
SubDigits(a, b, borrow) ==
    IF a = <<>> THEN <<>>
    ELSE <<(Head(a) - (IF b = <<>> THEN 0 ELSE Head(b)) - borrow + 10) % 10>>
         \o SubDigits(Tail(a), IF b = <<>> THEN <<>> ELSE Tail(b),
                      IF Head(a) - (IF b = <<>> THEN 0 ELSE Head(b)) - borrow < 0
                      THEN 1 ELSE 0)

Sub(a, b) == Norm(SubDigits(a, b, 0))

Two63 == <<8, 0, 8, 5, 7, 7, 4, 5, 8, 6, 3, 0, 2, 7, 3, 3, 2, 2, 9>>
Two64 == <<6, 1, 6, 1, 5, 5, 9, 0, 7, 3, 7, 0, 4, 4, 7, 6, 4, 4, 8, 1>>

Int64(n) == [neg |-> n < 0, mag |-> FromNat(IF n < 0 THEN 0 - n ELSE n)]

\* the int a natural number becomes in 64 bits, two's complement
RECURSIVE Wrap(_)
Wrap(p) ==
    IF Less(p, Two63) THEN [neg |-> FALSE, mag |-> p]
    ELSE IF Less(p, Two64) THEN [neg |-> TRUE, mag |-> Sub(Two64, p)]
    ELSE Wrap(Sub(p, Two64))

DigitValue(c) ==
    CASE c = "0" -> 0 [] c = "1" -> 1 [] c = "2" -> 2 [] c = "3" -> 3 [] c = "4" -> 4
      [] c = "5" -> 5 [] c = "6" -> 6 [] c = "7" -> 7 [] c = "8" -> 8 [] c = "9" -> 9

\* the digits of a text of digits, lowest first
RECURSIVE DigitsLowFirst(_)
DigitsLowFirst(cs) ==
    IF cs = <<>> THEN <<>>
    ELSE Append(DigitsLowFirst(Tail(cs)), DigitValue(Head(cs)))

AtoiError == [ok |-> FALSE, n |-> Int64(0)]

\* the digits after the sign: syntax, then range
AtoiBody(neg, body) ==
    IF body = <<>> \/ \E i \in 1..Len(body) : body[i] \notin Digits
    THEN AtoiError
    ELSE IF Less(Norm(DigitsLowFirst(body)), Two63)
            \/ (neg /\ Norm(DigitsLowFirst(body)) = Two63)
    THEN [ok |-> TRUE,
          n  |-> [neg |-> neg /\ Norm(DigitsLowFirst(body)) # <<>>,
                  mag |-> Norm(DigitsLowFirst(body))]]
    ELSE AtoiError

\* strconv.Atoi(s), s given by its runes: [ok, n]
Atoi(cs) ==
    IF cs # <<>> /\ Head(cs) \in {"+", "-"}
    THEN AtoiBody(Head(cs) = "-", Tail(cs))
    ELSE AtoiBody(FALSE, cs)

Positive(n) == ~n.neg /\ n.mag # <<>>

-----------------------------------------------------------------------------
(* query.ParsePagination, Options.WithPagination, ValidateOptions *)

\* params[key], nil when the key is absent
ParamValues(params, key) ==
    IF \E i \in 1..Len(params) : params[i].k = key
    THEN params[CHOOSE i \in 1..Len(params) : params[i].k = key].v
    ELSE <<>>

\* ParsePagination, lines 29-33: p.Page
ParsedPage(vals) ==
    IF Len(vals) > 0 /\ Atoi(Chars(vals[1])).ok /\ Positive(Atoi(Chars(vals[1])).n)
    THEN Atoi(Chars(vals[1])).n
    ELSE Int64(1)

\* ParsePagination, lines 35-43: p.Limit
ParsedLimit(vals) ==
    IF Len(vals) > 0 /\ Atoi(Chars(vals[1])).ok /\ Positive(Atoi(Chars(vals[1])).n)
    THEN IF Less(FromNat(100), Atoi(Chars(vals[1])).n.mag)
         THEN Int64(100)
         ELSE Atoi(Chars(vals[1])).n
    ELSE Int64(20)

\* (page - 1) * limit in 64 bits, for page >= 1 and 1 <= limit <= 100
OffsetOf(page, limit) == Wrap(MulSmall(Sub(page.mag, <<1>>), ToNat(limit.mag), 0))

WidePagination(page, limit, offset) == [Page |-> page, Limit |-> limit, Offset |-> offset]

\* query.ParsePagination
ParsePagination(params) ==
    WidePagination(ParsedPage(ParamValues(params, "page")),
                   ParsedLimit(ParamValues(params, "limit")),
                   OffsetOf(ParsedPage(ParamValues(params, "page")),
                            ParsedLimit(ParamValues(params, "limit"))))

\* Options.WithPagination(page, limit), on ints far from the 64-bit limits
WithPagination(page, limit) ==
    WidePagination(Int64(page), Int64(limit), Int64((page - 1) * limit))

ToInt(n) == IF n.neg THEN 0 - ToNat(n.mag) ELSE ToNat(n.mag)

\* OptionsValidator.ValidateOptions on options that hold a pagination only:
\* the error returned, "" for nil
ValidateOptions(p) ==
    IF ToInt(p.Limit) < 0 \/ ToInt(p.Limit) > 1000
    THEN "limit must be between 0 and 1000"
    ELSE IF ToInt(p.Page) < 1 THEN "page must be at least 1"
    ELSE ""

\* the texts of a page or limit parameter
NumberTexts ==
    { "", "0", "-3", "-1", "abc", "-", "1", "2", "+5", "007", "10", "20", "100", "101",
      "500", "461168601842738792", "9223372036854775807", "9223372036854775808",
      "99999999999999999999" }

\* the values of a parameter: absent, empty, one text, two texts
ValueLists == {<<>>} \cup {<<t>> : t \in NumberTexts} \cup {<<"2", "abc">>}

PaginationParams ==
    {<<>>, <<KV("page", <<>>), KV("limit", <<>>)>>}
    \cup {<<KV("page", v)>> : v \in ValueLists}
    \cup {<<KV("limit", v)>> : v \in ValueLists}
    \cup {<<KV("limit", v), KV("page", w)>> :
             v \in {<<"10">>, <<"500">>, <<"0">>, <<"100">>},
             w \in {<<"2">>, <<"0">>, <<"461168601842738792">>, <<"9223372036854775807">>}}

SmallInts == {-1, 0, 1, 2, 100, 101, 500, 1000, 1001}

InitPag ==
    /\ fn \in {[op |-> "new", params |-> ps, page |-> 1, limit |-> 20,
                in |-> WidePagination(Int64(1), Int64(20), Int64(0)),
                out |-> WidePagination(Int64(1), Int64(20), Int64(0)), err |-> ""] :
                  ps \in PaginationParams}
          \cup
          {[op |-> "new", params |-> <<>>, page |-> pg, limit |-> lm,
            in |-> WidePagination(Int64(pg), Int64(lm), Int64(off)),
            out |-> WidePagination(Int64(1), Int64(20), Int64(0)), err |-> ""] :
                  pg \in {0, 1, 2}, lm \in SmallInts, off \in {-5, 0, 100}}
    /\ lst = [op |-> "idle"] /\ conc = [op |-> "idle"]
    /\ paramOffset = 0 /\ reqFilter = EmptyMap /\ permFilter = EmptyMap
    /\ fbFilter = EmptyMap /\ fbStart = 0 /\ fbSQL = NoText /\ fbArgs = <<>>
    /\ fbOp = "idle"
    /\ qFilters = <<>> /\ qStart = 1 /\ qSQL = NoText /\ qArgs = <<>> /\ qOp = "idle"
    /\ store = {} /\ cache = <<>> /\ chkReq = <<>> /\ chkRes = <<>>
    /\ chkData = EmptyMap /\ chkTrace = <<>> /\ chkLoad = <<>>
    /\ chkWrote = "" /\ chkCleared = FALSE
    /\ fld = [op |-> "idle"] /\ prs = [op |-> "idle"] /\ srt = [op |-> "idle"]
    /\ bld = [op |-> "idle"] /\ bldRes = [op |-> "idle"] /\ san = [op |-> "idle"]

CallDefaultPagination ==
    /\ fn.op = "new"
    /\ fn' = [fn EXCEPT !.op = "default",
                        !.out = WidePagination(Int64(DefaultPagination.Page),
                                               Int64(DefaultPagination.Limit),
                                               Int64(DefaultPagination.Offset))]
    /\ UNCHANGED <<fbVars, qVars, chkVars, fnVars, bldVars, lst, conc>>

CallParsePagination ==
    /\ fn.op = "new"
    /\ fn' = [fn EXCEPT !.op = "parse", !.out = ParsePagination(fn.params)]
    /\ UNCHANGED <<fbVars, qVars, chkVars, fnVars, bldVars, lst, conc>>

CallWithPagination ==
    /\ fn.op = "new"
    /\ fn' = [fn EXCEPT !.op = "with", !.out = WithPagination(fn.page, fn.limit)]
    /\ UNCHANGED <<fbVars, qVars, chkVars, fnVars, bldVars, lst, conc>>

\* ValidateOptions(Options{Pagination: in}); an accepted pagination is the
\* output
CallValidateOptions ==
    /\ fn.op = "new"
    /\ fn' = [fn EXCEPT !.op = "validate", !.err = ValidateOptions(fn.in), !.out = fn.in]
    /\ UNCHANGED <<fbVars, qVars, chkVars, fnVars, bldVars, lst, conc>>

NextPag ==
    \/ CallDefaultPagination \/ CallParsePagination
    \/ CallWithPagination \/ CallValidateOptions

SpecPag == InitPag /\ [][NextPag]_vars

-----------------------------------------------------------------------------
(* query.SortParser *)

MaxSegments == 3   \* most comma-separated segments of a sort parameter

NoError == [Code |-> "", Message |-> ""]

\* apperror.ErrInvalidSort.WithMessagef
InvalidSort(message) == [Code |-> "INVALID_SORT", Message |-> message]

\* query.NewSortParser: the keys of allowedFields
NewSortParser(allowedFields) == {allowedFields[i] : i \in 1..Len(allowedFields)}

\* Parse, lines 895-903, without the "-" case: every segment ascending
SegmentSortAscending(part) ==
    IF Head(part) \in {"-", "+"} THEN Sort(Render(Tail(part)), SortAsc)
    ELSE Sort(Render(part), SortAsc)

\* Parse, lines 895-903: the direction and field of a trimmed segment that is
\* not empty
SegmentSort(part) ==
    IF Head(part) = "-" THEN Sort(Render(Tail(part)), SortDesc)
    ELSE IF Head(part) = "+" THEN Sort(Render(Tail(part)), SortAsc)
    ELSE Sort(Render(part), SortAsc)

\* the loop of Parse with a bad segment skipped instead of refused
RECURSIVE SortLoopSkipping(_, _, _)
SortLoopSkipping(allowed, parts, sorts) ==
    IF parts = <<>> THEN [sorts |-> sorts, err |-> NoError]
    ELSE IF TrimSpace(Head(parts)) = <<>>
    THEN SortLoopSkipping(allowed, Tail(parts), sorts)
    ELSE IF sanitizeIdentifier(SegmentSort(TrimSpace(Head(parts))).Field) = ""
    THEN SortLoopSkipping(allowed, Tail(parts), sorts)
    ELSE IF allowed # {} /\ SegmentSort(TrimSpace(Head(parts))).Field \notin allowed
    THEN SortLoopSkipping(allowed, Tail(parts), sorts)
    ELSE SortLoopSkipping(allowed, Tail(parts),
                          Append(sorts, SegmentSort(TrimSpace(Head(parts)))))

\* Parse, lines 890-919: the loop over the segments; [sorts, err]
RECURSIVE SortLoop(_, _, _)
SortLoop(allowed, parts, sorts) ==
    IF parts = <<>> THEN [sorts |-> sorts, err |-> NoError]
    ELSE IF TrimSpace(Head(parts)) = <<>>
    THEN SortLoop(allowed, Tail(parts), sorts)
    ELSE IF sanitizeIdentifier(SegmentSort(TrimSpace(Head(parts))).Field) = ""
    THEN [sorts |-> <<>>,
          err |-> InvalidSort("Invalid field name '"
                              \o SegmentSort(TrimSpace(Head(parts))).Field \o "'")]
    ELSE IF allowed # {} /\ SegmentSort(TrimSpace(Head(parts))).Field \notin allowed
    THEN [sorts |-> <<>>,
          err |-> InvalidSort("Field '" \o SegmentSort(TrimSpace(Head(parts))).Field
                              \o "' is not allowed for sorting")]
    ELSE SortLoop(allowed, Tail(parts),
                  Append(sorts, SegmentSort(TrimSpace(Head(parts)))))

\* SortParser.Parse(sortParam), sortParam given by its runes; a nil slice and
\* an empty one are both <<>>
SortParserParse(allowed, sortParam) ==
    IF sortParam = <<>> THEN [sorts |-> <<>>, err |-> NoError]
    ELSE SortLoop(allowed, SplitComma(sortParam, <<>>), <<>>)

\* the segments sort parameters are made of
SortSegments ==
    { <<>>, <<" ">>, <<"a">>, <<"-", "a">>, <<"+", "b">>, <<" ", "-", "a", " ">>,
      <<"-">>, <<"+", "-", "a">>, <<"-", " ", "a">>, <<"a", ";", "b">>,
      <<"-", "1", "a">>, <<"_", "x">>, <<"-", "n", "a", "m", "e">>,
      <<"\f", "a", "U+00A0">> }

RECURSIVE JoinRunes(_)
JoinRunes(segs) ==
    IF Len(segs) = 0 THEN <<>>
    ELSE IF Len(segs) = 1 THEN segs[1]
    ELSE segs[1] \o <<",">> \o JoinRunes(Tail(segs))

SortParams == {JoinRunes(segs) : segs \in SeqsUpTo(SortSegments, MaxSegments)}

SortAllowLists == {<<>>, <<"a">>, <<"b", "a", "_x", "name">>}

InitSort ==
    /\ fn \in {[op |-> "new", allowed |-> NewSortParser(al), sortParam |-> sp,
                out |-> [sorts |-> <<>>, err |-> NoError], sql |-> <<>>] :
                  al \in SortAllowLists, sp \in SortParams}
    /\ lst = [op |-> "idle"] /\ conc = [op |-> "idle"]
    /\ paramOffset = 0 /\ reqFilter = EmptyMap /\ permFilter = EmptyMap
    /\ fbFilter = EmptyMap /\ fbStart = 0 /\ fbSQL = NoText /\ fbArgs = <<>>
    /\ fbOp = "idle"
    /\ qFilters = <<>> /\ qStart = 1 /\ qSQL = NoText /\ qArgs = <<>> /\ qOp = "idle"
    /\ store = {} /\ cache = <<>> /\ chkReq = <<>> /\ chkRes = <<>>
    /\ chkData = EmptyMap /\ chkTrace = <<>> /\ chkLoad = <<>>
    /\ chkWrote = "" /\ chkCleared = FALSE
    /\ fld = [op |-> "idle"] /\ prs = [op |-> "idle"] /\ srt = [op |-> "idle"]
    /\ bld = [op |-> "idle"] /\ bldRes = [op |-> "idle"] /\ san = [op |-> "idle"]

CallSortParse ==
    /\ fn.op = "new"
    /\ fn' = [fn EXCEPT !.op = "parsed",
                        !.out = SortParserParse(fn.allowed, fn.sortParam)]
    /\ UNCHANGED <<fbVars, qVars, chkVars, fnVars, bldVars, lst, conc>>

\* the parsed sorts handed on to SortsToSQL
CallSortsToSQLParsed ==
    /\ fn.op = "parsed"
    /\ fn.out.err = NoError
    /\ fn' = [fn EXCEPT !.op = "sql", !.sql = SortsToSQL(fn.out.sorts)]
    /\ UNCHANGED <<fbVars, qVars, chkVars, fnVars, bldVars, lst, conc>>

NextSort == CallSortParse \/ CallSortsToSQLParsed

SpecSort == InitSort /\ [][NextSort]_vars

\* the trimmed segments of a sort parameter that are not empty
RECURSIVE TrimmedSegments(_)
TrimmedSegments(parts) ==
    IF parts = <<>> THEN <<>>
    ELSE IF TrimSpace(Head(parts)) = <<>> THEN TrimmedSegments(Tail(parts))
    ELSE <<TrimSpace(Head(parts))>> \o TrimmedSegments(Tail(parts))

SegmentsOf(sortParam) ==
    IF sortParam = <<>> THEN <<>> ELSE TrimmedSegments(SplitComma(sortParam, <<>>))

\* a segment without its one leading "-" or "+"
Unprefixed(seg) == IF Head(seg) \in {"-", "+"} THEN Tail(seg) ELSE seg

\* C25: Parse returns one Sort per non-empty trimmed segment, in segment
\* order, DESC for a "-" prefix and ASC otherwise, the prefix removed from the
\* field; SortsToSQL emits one "field DIRECTION" term per Sort, joined with
\* ", ", in the same order.
C25_SortOrderPreserved ==
    /\ (fn.op \in {"parsed", "sql"} /\ fn.out.err = NoError) =>
          /\ Len(fn.out.sorts) = Len(SegmentsOf(fn.sortParam))
          /\ \A i \in 1..Len(fn.out.sorts) :
                /\ Chars(fn.out.sorts[i].Field) = Unprefixed(SegmentsOf(fn.sortParam)[i])
                /\ fn.out.sorts[i].Direction =
                      IF Head(SegmentsOf(fn.sortParam)[i]) = "-" THEN "DESC" ELSE "ASC"
    /\ fn.op = "sql" =>
          /\ Len(fn.sql) = IF fn.out.sorts = <<>> THEN 0 ELSE 2 * Len(fn.out.sorts) - 1
          /\ \A i \in 1..Len(fn.out.sorts) :
                fn.sql[2 * i - 1] =
                    fn.out.sorts[i].Field \o " " \o fn.out.sorts[i].Direction
          /\ \A i \in 1..(Len(fn.out.sorts) - 1) : fn.sql[2 * i] = ", "

C25_Witness ==
    /\ fn.op = "sql"
    /\ fn.sortParam = <<"-", "a", ",", "+", "b", ",", "_", "x">>
    /\ fn.out.sorts = <<Sort("a", "DESC"), Sort("b", "ASC"), Sort("_x", "ASC")>>
    /\ Render(fn.sql) = "a DESC, b ASC, _x ASC"

\* a segment Parse must refuse
BadSegment(allowed, seg) ==
    \/ ~IsIdentifier(Unprefixed(seg))
    \/ allowed # {} /\ \A f \in allowed : Chars(f) # Unprefixed(seg)

\* C26: Parse returns an InvalidSort error and no sorts whenever a non-empty
\* segment's field fails identifier sanitization or is absent from a
\* non-empty allow-list, and no error otherwise (empty segments are skipped);
\* every Sort returned has a sanitized field that belongs to the allow-list
\* when one is given.
C26_InvalidSortRefused ==
    fn.op = "parsed" =>
        /\ (\E i \in 1..Len(SegmentsOf(fn.sortParam)) :
               BadSegment(fn.allowed, SegmentsOf(fn.sortParam)[i]))
              => (fn.out.err.Code = "INVALID_SORT" /\ fn.out.sorts = <<>>)
        /\ (\A i \in 1..Len(SegmentsOf(fn.sortParam)) :
               ~BadSegment(fn.allowed, SegmentsOf(fn.sortParam)[i]))
              => fn.out.err = NoError
        /\ \A i \in 1..Len(fn.out.sorts) :
              /\ IsIdentifier(Chars(fn.out.sorts[i].Field))
              /\ fn.allowed # {} => fn.out.sorts[i].Field \in fn.allowed

\* a bad last segment after two good ones, and empty segments skipped
C26_Witness ==
    \/ /\ fn.op = "parsed"
       /\ fn.sortParam = <<"a", ",", "+", "b", ",", "a", ";", "b">>
       /\ fn.out.err = InvalidSort("Invalid field name 'a;b'")
       /\ fn.out.sorts = <<>>
    \/ /\ fn.op = "parsed"
       /\ fn.allowed = {"a"}
       /\ fn.sortParam = <<"a", ",", "+", "b">>
       /\ fn.out.err = InvalidSort("Field 'b' is not allowed for sorting")

-----------------------------------------------------------------------------
(* collection.Service.List and collection.Repository.List *)

MaxListParams == 2   \* most query parameters of a list request

\* a Pagination of ints, from one held digit by digit
Narrow(p) == Pagination(ToInt(p.Page), ToInt(p.Limit), ToInt(p.Offset))

\* query.DefaultSort
DefaultSort(primaryKey) ==
    IF primaryKey = "" THEN <<>> ELSE <<Sort(primaryKey, SortDesc)>>

\* Service.List, lines 63-66: the sort parameter
SortParamOf(params) ==
    IF Len(ParamValues(params, "sort")) > 0 THEN ParamValues(params, "sort")[1] ELSE ""

\* Repository.List, lines 31-34: the builder both queries are built from
ListBuilder(l) ==
    Paginate(OrderBy(Where(NewBuilder(l.collection.TableName), l.filters), l.sorts),
             Narrow(l.pagination))

\* a step of the request: where it stands next, and what it did
Step(l, pc, event) == [l EXCEPT !.pc = pc, !.trace = Append(@, event)]

\* return nil, err
ReturnError(l, stage, code) ==
    [l EXCEPT !.pc = "returned", !.err = [stage |-> stage, code |-> code],
              !.trace = Append(@, "error")]

\* Service.List, lines 44-47
AfterGetCollection(l) ==
    IF ~l.collection.found THEN ReturnError(l, "collection", "COLLECTION_NOT_FOUND")
    ELSE Step(l, "filters", "collection")

\* Service.List going on after a filter parse error
AfterParseFiltersIgnoringError(l, res) ==
    IF res.panic THEN [l EXCEPT !.pc = "panicked", !.trace = Append(@, "panic")]
    ELSE [Step(l, "sorts", "filters") EXCEPT !.filters = res.filters]

\* Service.List, lines 53-57; res is what filterParser.Parse returned
AfterParseFilters(l, res) ==
    IF res.panic THEN [l EXCEPT !.pc = "panicked", !.trace = Append(@, "panic")]
    ELSE IF res.err # "" THEN ReturnError(l, "filters", "INVALID_FILTER")
    ELSE [Step(l, "sorts", "filters") EXCEPT !.filters = res.filters]

\* Service.List, lines 68-76; res is what sortParser.Parse returned
AfterParseSorts(l, res) ==
    IF res.err # NoError THEN ReturnError(l, "sorts", res.err.Code)
    ELSE [Step(l, "pagination", "sorts") EXCEPT
             !.sorts = IF Len(res.sorts) = 0 /\ l.collection.PrimaryKey # ""
                       THEN DefaultSort(l.collection.PrimaryKey)
                       ELSE res.sorts]

\* Repository.List, lines 37-41: the count query is built and run; ok tells
\* whether the database answered
AfterCount(l, q, ok) ==
    IF ok
    THEN [Step(l, "select", "count") EXCEPT
             !.queries = Append(@, [kind |-> "count", sql |-> q.sql, args |-> q.args])]
    ELSE [ReturnError(l, "count", "INTERNAL_ERROR") EXCEPT
             !.queries = Append(@, [kind |-> "count", sql |-> q.sql, args |-> q.args])]

\* Repository.List, lines 44-69, and Service.List, lines 86-103
AfterSelect(l, q, ok) ==
    IF ok
    THEN [Step(l, "returned", "select") EXCEPT
             !.queries = Append(@, [kind |-> "select", sql |-> q.sql, args |-> q.args])]
    ELSE [ReturnError(l, "select", "INTERNAL_ERROR") EXCEPT
             !.queries = Append(@, [kind |-> "select", sql |-> q.sql, args |-> q.args])]

NoCollection == [found |-> FALSE, TableName |-> "", PrimaryKey |-> "", Fields |-> <<>>]

ListCollections ==
    { NoCollection,
      [found |-> TRUE, TableName |-> "products", PrimaryKey |-> "id",
       Fields |-> <<"a", "b">>],
      [found |-> TRUE, TableName |-> "products", PrimaryKey |-> "", Fields |-> <<>>] }

ListParamUniverse ==
    { KV("filter[a]",       <<"x">>),
      KV("filter[a:bogus]", <<"x">>),
      KV("filter[b]",       <<>>),
      KV("filter[1a]",      <<"x">>),
      KV("sort",            <<"-a">>),
      KV("sort",            <<"a;b">>),
      KV("sort",            <<"name">>),
      KV("sort",            <<>>),
      KV("page",            <<"2">>),
      KV("limit",           <<"500">>) }

ListParams ==
    {ps \in SeqsUpTo(ListParamUniverse, MaxListParams) :
        \A i, j \in 1..Len(ps) : ps[i].k = ps[j].k => i = j}

InitList ==
    /\ lst \in {[op |-> "list", pc |-> "start", collection |-> c, params |-> ps,
                 filters |-> <<>>, sorts |-> <<>>,
                 pagination |-> WidePagination(Int64(1), Int64(20), Int64(0)),
                 err |-> [stage |-> "", code |-> ""], trace |-> <<>>,
                 queries |-> <<>>] : c \in ListCollections, ps \in ListParams}
    /\ fn = [op |-> "idle"] /\ conc = [op |-> "idle"]
    /\ paramOffset = 0 /\ reqFilter = EmptyMap /\ permFilter = EmptyMap
    /\ fbFilter = EmptyMap /\ fbStart = 0 /\ fbSQL = NoText /\ fbArgs = <<>>
    /\ fbOp = "idle"
    /\ qFilters = <<>> /\ qStart = 1 /\ qSQL = NoText /\ qArgs = <<>> /\ qOp = "idle"
    /\ store = {} /\ cache = <<>> /\ chkReq = <<>> /\ chkRes = <<>>
    /\ chkData = EmptyMap /\ chkTrace = <<>> /\ chkLoad = <<>>
    /\ chkWrote = "" /\ chkCleared = FALSE
    /\ fld = [op |-> "idle"] /\ prs = [op |-> "idle"] /\ srt = [op |-> "idle"]
    /\ bld = [op |-> "idle"] /\ bldRes = [op |-> "idle"] /\ san = [op |-> "idle"]

ListGetCollection ==
    /\ lst.op = "list" /\ lst.pc = "start"
    /\ lst' = AfterGetCollection(lst)
    /\ UNCHANGED <<fbVars, qVars, chkVars, fnVars, bldVars, fn, conc>>

ListParseFilters ==
    /\ lst.op = "list" /\ lst.pc = "filters"
    /\ lst' = AfterParseFilters(lst, Parse(lst.collection.Fields, lst.params))
    /\ UNCHANGED <<fbVars, qVars, chkVars, fnVars, bldVars, fn, conc>>

ListParseSorts ==
    /\ lst.op = "list" /\ lst.pc = "sorts"
    /\ lst' = AfterParseSorts(lst, SortParserParse(NewSortParser(lst.collection.Fields),
                                                   Chars(SortParamOf(lst.params))))
    /\ UNCHANGED <<fbVars, qVars, chkVars, fnVars, bldVars, fn, conc>>

ListParsePagination ==
    /\ lst.op = "list" /\ lst.pc = "pagination"
    /\ lst' = [Step(lst, "count", "pagination") EXCEPT
                  !.pagination = ParsePagination(lst.params)]
    /\ UNCHANGED <<fbVars, qVars, chkVars, fnVars, bldVars, fn, conc>>

ListCount ==
    /\ lst.op = "list" /\ lst.pc = "count"
    /\ \E ok \in BOOLEAN : lst' = AfterCount(lst, BuildCount(ListBuilder(lst)), ok)
    /\ UNCHANGED <<fbVars, qVars, chkVars, fnVars, bldVars, fn, conc>>

ListSelect ==
    /\ lst.op = "list" /\ lst.pc = "select"
    /\ \E ok \in BOOLEAN : lst' = AfterSelect(lst, BuildSelect(ListBuilder(lst)), ok)
    /\ UNCHANGED <<fbVars, qVars, chkVars, fnVars, bldVars, fn, conc>>

NextList ==
    \/ ListGetCollection \/ ListParseFilters \/ ListParseSorts
    \/ ListParsePagination \/ ListCount \/ ListSelect

SpecList == InitList /\ [][NextList]_vars

\* what the parsers say of the request's parameters
FilterParseFails ==
    Parse(lst.collection.Fields, lst.params).err # ""
    \/ Parse(lst.collection.Fields, lst.params).panic

SortParseFails ==
    SortParserParse(NewSortParser(lst.collection.Fields),
                    Chars(SortParamOf(lst.params))).err # NoError

\* C27: in Service.List a filter or sort parse error aborts the request before
\* any SQL statement is built or executed: the count query and then the select
\* query are built only after filter, sort and pagination parsing succeeded,
\* and once a parse error is returned no query of the request ever runs.
C27_ParseErrorsAbortBeforeSQL ==
    /\ [](lst.op = "list" =>
            /\ (lst.collection.found /\ (FilterParseFails \/ SortParseFails))
                  => lst.queries = <<>>
            /\ lst.queries # <<>> =>
                  /\ SubSeq(lst.trace, 1, 4) =
                        <<"collection", "filters", "sorts", "pagination">>
                  /\ lst.queries[1].kind = "count"
                  /\ Len(lst.queries) = 2 => lst.queries[2].kind = "select"
                  /\ Len(lst.queries) <= 2)
    /\ []((lst.op = "list" /\ lst.err.stage \in {"filters", "sorts"})
             => [](lst.pc = "returned" /\ lst.queries = <<>>))

\* a sort error after the filters parsed: returned with nothing built
C27_Witness ==
    /\ lst.op = "list" /\ lst.pc = "returned"
    /\ lst.params = <<KV("filter[a]", <<"x">>), KV("sort", <<"a;b">>)>>
    /\ lst.trace = <<"collection", "filters", "error">>
    /\ lst.err = [stage |-> "sorts", code |-> "INVALID_SORT"]
    /\ lst.queries = <<>>

-----------------------------------------------------------------------------
(* The Checker's cache under concurrent calls *)

MaxClock == 4     \* most store fetches, cache clears and store writes of a run

Goroutines == {"g1", "g2"}

\* the policies written while others load and check
ConcPolicies ==
    {Policy("r1", "posts", "read", b) : b \in Bodies}
    \cup {Policy("r2", "posts", "read", b) :
             b \in {c \in Bodies : c.Filter = ""}}

Later(a, b) == IF a > b THEN a ELSE b

InitConc ==
    /\ conc = [op |-> "run", rows |-> {}, entries |-> [r \in Roles |-> NotCached],
               loads |-> [g \in Goroutines |-> Resting("")],
               clock |-> 0, clearedAt |-> 0,
               stamp |-> [r \in Roles |-> 0], returned |-> [r \in Roles |-> 0],
               look |-> [pc |-> "idle", role |-> ""],
               seen |-> Got(NotFound, "", 0, 0)]
    /\ fn = [op |-> "idle"] /\ lst = [op |-> "idle"]
    /\ paramOffset = 0 /\ reqFilter = EmptyMap /\ permFilter = EmptyMap
    /\ fbFilter = EmptyMap /\ fbStart = 0 /\ fbSQL = NoText /\ fbArgs = <<>>
    /\ fbOp = "idle"
    /\ qFilters = <<>> /\ qStart = 1 /\ qSQL = NoText /\ qArgs = <<>> /\ qOp = "idle"
    /\ store = {} /\ cache = <<>> /\ chkReq = <<>> /\ chkRes = <<>>
    /\ chkData = EmptyMap /\ chkTrace = <<>> /\ chkLoad = <<>>
    /\ chkWrote = "" /\ chkCleared = FALSE
    /\ fld = [op |-> "idle"] /\ prs = [op |-> "idle"] /\ srt = [op |-> "idle"]
    /\ bld = [op |-> "idle"] /\ bldRes = [op |-> "idle"] /\ san = [op |-> "idle"]

\* a goroutine enters LoadRolePolicies and fetches
LoadFetch ==
    /\ conc.op = "run" /\ conc.clock < MaxClock
    /\ \E g \in Goroutines, r \in Roles, dbFails \in BOOLEAN :
          /\ conc.loads[g].pc = "idle"
          /\ conc' = [conc EXCEPT
                         !.loads[g] = Fetched(conc.rows, r, conc.clock + 1, dbFails),
                         !.clock = @ + 1]
    /\ UNCHANGED <<fbVars, qVars, chkVars, fnVars, bldVars, fn, lst>>

\* it takes the lock, stores what it fetched and returns
LoadInstall ==
    /\ conc.op = "run"
    /\ \E g \in Goroutines :
          /\ conc.loads[g].pc = "fetched"
          /\ conc' = [conc EXCEPT
                         !.entries = Installed(conc.entries, conc.loads[g]),
                         !.stamp[conc.loads[g].role] = conc.loads[g].fetchedAt,
                         !.returned[conc.loads[g].role] =
                             Later(@, conc.loads[g].fetchedAt),
                         !.loads[g] = Resting("")]
    /\ UNCHANGED <<fbVars, qVars, chkVars, fnVars, bldVars, fn, lst>>

ConcClearCache ==
    /\ conc.op = "run" /\ conc.clock < MaxClock
    /\ conc' = [conc EXCEPT !.entries = Cleared(conc.entries),
                            !.clearedAt = conc.clock + 1, !.clock = @ + 1]
    /\ UNCHANGED <<fbVars, qVars, chkVars, fnVars, bldVars, fn, lst>>

\* PolicyStore.Upsert or PolicyStore.Delete by an administrator; a statement
\* that fails leaves the table as it was
ConcStoreWrite ==
    /\ conc.op = "run" /\ conc.clock < MaxClock
    /\ \E p \in ConcPolicies, delete \in BOOLEAN, dbFails \in BOOLEAN :
          conc' = [conc EXCEPT
                      !.rows = IF delete
                               THEN Delete(conc.rows, PolicyKey(p), dbFails).rows
                               ELSE Upsert(conc.rows, p, dbFails).rows,
                      !.clock = @ + 1]
    /\ UNCHANGED <<fbVars, qVars, chkVars, fnVars, bldVars, fn, lst>>

\* what getPolicy returns when the cache read c = [ok, found, policy] found
\* an entry; without one the lookup waits for its query
CacheAnswer(c, role, look, seen) ==
    IF c.ok THEN [look |-> [pc |-> "idle", role |-> ""], seen |-> Got(c, "", 1, 0)]
    ELSE [look |-> [pc |-> "query", role |-> role], seen |-> seen]

\* the lookup a Check makes, getPolicy, lines 169-180: it reads the cache
\* under the read lock and lets the lock go
ConcCheck ==
    /\ conc.op = "run" /\ conc.look.pc = "idle"
    /\ \E r \in Roles :
          conc' = [conc EXCEPT
                      !.look = CacheAnswer(getPolicyCached(conc.entries, r, "posts",
                                                           "read"),
                                           r, conc.look, conc.seen).look,
                      !.seen = CacheAnswer(getPolicyCached(conc.entries, r, "posts",
                                                           "read"),
                                           r, conc.look, conc.seen).seen]
    /\ UNCHANGED <<fbVars, qVars, chkVars, fnVars, bldVars, fn, lst>>

\* getPolicy, lines 182-188: the query of a lookup that found no entry runs on
\* the table as it is by then; a failing query returns (nil, err)
ConcCheckQuery ==
    /\ conc.op = "run" /\ conc.look.pc = "query"
    /\ \E dbFails \in BOOLEAN :
          conc' = [conc EXCEPT
                      !.look = [pc |-> "idle", role |-> ""],
                      !.seen = Got(FetchPolicy(conc.rows, conc.look.role, "posts",
                                               "read", dbFails),
                                   IF dbFails THEN DBError ELSE "", 1, 1)]
    /\ UNCHANGED <<fbVars, qVars, chkVars, fnVars, bldVars, fn, lst>>

NextConc ==
    \/ LoadFetch \/ LoadInstall \/ ConcClearCache \/ ConcStoreWrite
    \/ ConcCheck \/ ConcCheckQuery

SpecConc == InitConc /\ [][NextConc]_vars

\* C28: whenever no LoadRolePolicies call is in progress, the cache entry of a
\* role, if present, holds the result of a store fetch that started after the
\* most recent ClearCache completed and that is not older than the fetch of
\* any LoadRolePolicies call for that role that returned earlier.
C28_NoStaleInstall ==
    (conc.op = "run" /\ \A g \in Goroutines : conc.loads[g].pc = "idle") =>
        \A r \in Roles :
            conc.entries[r].ok =>
                /\ conc.stamp[r] > conc.clearedAt
                /\ conc.stamp[r] >= conc.returned[r]

-----------------------------------------------------------------------------
(* permission.MergeFilters *)

MaxMerged == 3    \* most filter maps handed to MergeFilters

\* result[k] = v on a map held as its entries
SetKey(mp, k, v) ==
    IF HasKey(mp, k)
    THEN Map([i \in 1..Len(mp.m) |-> IF mp.m[i].k = k THEN KV(k, v) ELSE mp.m[i]])
    ELSE Map(Append(mp.m, KV(k, v)))

\* delete(result, k)
RECURSIVE EntriesWithout(_, _)
EntriesWithout(es, k) ==
    IF es = <<>> THEN <<>>
    ELSE IF Head(es).k = k THEN EntriesWithout(Tail(es), k)
    ELSE <<Head(es)>> \o EntriesWithout(Tail(es), k)

DeleteKey(mp, k) == Map(EntriesWithout(mp.m, k))

\* MergeFilters, lines 1208-1218: one entry of one filter met with the result
\* so far
MergeEntry(result, k, v) ==
    IF HasKey(result, k)
    THEN DeleteKey(SetKey(result, "_and",
                          List(<<Map(<<KV(k, Get(result, k))>>), Map(<<KV(k, v)>>)>>)),
                   k)
    ELSE SetKey(result, k, v)

\* MergeFilters, lines 1207-1219: the entries of one filter in range order
RECURSIVE MergeOne(_, _)
MergeOne(result, es) ==
    IF es = <<>> THEN result
    ELSE MergeOne(MergeEntry(result, Head(es).k, Head(es).v), Tail(es))

\* MergeFilters, lines 1203-1220: the filters in turn, a nil one skipped
RECURSIVE MergeLoop(_, _)
MergeLoop(result, filters) ==
    IF filters = <<>> THEN result
    ELSE IF Head(filters) = Null THEN MergeLoop(result, Tail(filters))
    ELSE MergeLoop(MergeOne(result, Head(filters).m), Tail(filters))

\* permission.MergeFilters(filters...)
MergeFilters(filters) == MergeLoop(EmptyMap, filters)

\* the filter maps merged, nil among them, maps of two keys in both range
\* orders
MergeInputs ==
    { Null, EmptyMap,
      Map(<<KV("a", Num("1"))>>), Map(<<KV("a", Num("2"))>>),
      Map(<<KV("a", Num("3"))>>), Map(<<KV("b", Num("1"))>>),
      Map(<<KV("a", Num("1")), KV("b", Num("2"))>>),
      Map(<<KV("b", Num("2")), KV("a", Num("1"))>>),
      Map(<<KV("a", Num("3")), KV("b", Num("4"))>>),
      Map(<<KV("_and", List(<<Map(<<KV("c", Num("1"))>>)>>))>>),
      Map(<<KV("_and", List(<<Map(<<KV("d", Num("2"))>>)>>))>>) }

InitMerge ==
    /\ fn \in {[op |-> "new", filters |-> fs, out |-> EmptyMap] :
                  fs \in SeqsUpTo(MergeInputs, MaxMerged)}
    /\ lst = [op |-> "idle"] /\ conc = [op |-> "idle"]
    /\ paramOffset = 0 /\ reqFilter = EmptyMap /\ permFilter = EmptyMap
    /\ fbFilter = EmptyMap /\ fbStart = 0 /\ fbSQL = NoText /\ fbArgs = <<>>
    /\ fbOp = "idle"
    /\ qFilters = <<>> /\ qStart = 1 /\ qSQL = NoText /\ qArgs = <<>> /\ qOp = "idle"
    /\ store = {} /\ cache = <<>> /\ chkReq = <<>> /\ chkRes = <<>>
    /\ chkData = EmptyMap /\ chkTrace = <<>> /\ chkLoad = <<>>
    /\ chkWrote = "" /\ chkCleared = FALSE
    /\ fld = [op |-> "idle"] /\ prs = [op |-> "idle"] /\ srt = [op |-> "idle"]
    /\ bld = [op |-> "idle"] /\ bldRes = [op |-> "idle"] /\ san = [op |-> "idle"]

CallMergeFilters ==
    /\ fn.op = "new"
    /\ fn' = [fn EXCEPT !.op = "merged", !.out = MergeFilters(fn.filters)]
    /\ UNCHANGED <<fbVars, qVars, chkVars, fnVars, bldVars, lst, conc>>

NextMerge == CallMergeFilters

SpecMerge == InitMerge /\ [][NextMerge]_vars

\* the condition (k, v) stands in the map mp under its own key, or inside an
\* "_and" group of mp, at most depth groups down
RECURSIVE Holds(_, _, _, _)
Holds(mp, k, v, depth) ==
    \/ \E i \in 1..Len(mp.m) : mp.m[i].k = k /\ mp.m[i].v = v
    \/ /\ depth > 0
       /\ \E i \in 1..Len(mp.m) :
             /\ mp.m[i].k = "_and"
             /\ mp.m[i].v.t = "list"
             /\ \E j \in 1..Len(mp.m[i].v.l) :
                   /\ mp.m[i].v.l[j].t = "map"
                   /\ Holds(mp.m[i].v.l[j], k, v, depth - 1)

\* C29: MergeFilters loses no condition: every (key, value) condition of every
\* non-nil input appears in the result under its own key or inside an "_and"
\* group, also when two different keys each collide, when the same key occurs
\* in three inputs, and when the colliding key is "_and" itself.
C29_MergeLosesNothing ==
    fn.op = "merged" =>
        \A n \in 1..Len(fn.filters) :
            fn.filters[n] # Null =>
                \A i \in 1..Len(fn.filters[n].m) :
                    Holds(fn.out, fn.filters[n].m[i].k, fn.filters[n].m[i].v, 3)

-----------------------------------------------------------------------------
(* Claims about pagination *)

\* the number a text spells, of any size: an optional sign, then digits
Spelled(cs) ==
    IF cs # <<>> /\ Head(cs) \in {"+", "-"}
    THEN [ok |-> Tail(cs) # <<>> /\ \A i \in 1..Len(Tail(cs)) : Tail(cs)[i] \in Digits,
          neg |-> Head(cs) = "-", body |-> Tail(cs)]
    ELSE [ok |-> cs # <<>> /\ \A i \in 1..Len(cs) : cs[i] \in Digits,
          neg |-> FALSE, body |-> cs]

\* a text that spells a number above zero
SpellsPositive(vals) ==
    /\ Len(vals) > 0
    /\ Spelled(Chars(vals[1])).ok
    /\ ~Spelled(Chars(vals[1])).neg
    /\ Norm(DigitsLowFirst(Spelled(Chars(vals[1])).body)) # <<>>

SpelledMag(vals) == Norm(DigitsLowFirst(Spelled(Chars(vals[1])).body))

ClaimedPage(vals) ==
    IF SpellsPositive(vals) THEN [neg |-> FALSE, mag |-> SpelledMag(vals)]
    ELSE Int64(1)

ClaimedLimit(vals) ==
    IF SpellsPositive(vals)
    THEN IF Less(FromNat(100), SpelledMag(vals)) THEN Int64(100)
         ELSE [neg |-> FALSE, mag |-> SpelledMag(vals)]
    ELSE Int64(20)

\* (Page - 1) * Limit as a number of any size, for Page >= 1 and Limit >= 1
ExactOffset(p) ==
    [neg |-> FALSE,
     mag |-> Norm(MulSmall(Sub(p.Page.mag, <<1>>), ToNat(p.Limit.mag), 0))]

\* C23: ParsePagination maps every input as follows: a limit above 100 becomes
\* 100; a limit that is missing, non-numeric, zero or negative becomes 20; a
\* page that is missing, non-numeric, zero or negative becomes 1; any other
\* page or limit is kept; Offset is (Page-1)*Limit.
C23_ParsePaginationMapping ==
    fn.op = "parse" =>
        /\ fn.out.Limit = ClaimedLimit(ParamValues(fn.params, "limit"))
        /\ fn.out.Page = ClaimedPage(ParamValues(fn.params, "page"))
        /\ fn.out.Offset = ExactOffset(fn.out)

AtLeastOne(n) == ~n.neg /\ n.mag # <<>>

AtMostHundred(n) == n.neg \/ ~Less(FromNat(100), n.mag)

\* C24: every Pagination that DefaultPagination, ParsePagination or
\* Options.WithPagination produces, and every Pagination that ValidateOptions
\* accepts, has Page >= 1, 1 <= Limit <= 100 and Offset = (Page-1)*Limit >= 0.
C24_PaginationInvariant ==
    (fn.op \in {"default", "parse", "with"} \/ (fn.op = "validate" /\ fn.err = "")) =>
        /\ AtLeastOne(fn.out.Page)
        /\ AtLeastOne(fn.out.Limit)
        /\ AtMostHundred(fn.out.Limit)
        /\ fn.out.Offset = ExactOffset(fn.out)

-----------------------------------------------------------------------------
(* Claims about repeated builds *)

\* what a builder is set to, its placeholder counter apart
Settings(b) == [b EXCEPT !.paramOffset = 1]

\* C30: BuildSelect is repeatable: a BuildSelect call that follows another on
\* the same builder, with no change to its filters, sorts or pagination in
\* between, returns the same SQL text and the same args, its placeholders
\* numbered from the builder's initial offset.
C30_BuildSelectRepeatable ==
    [][(/\ bldRes.op = "select"
        /\ Settings(bld) = Settings(bldRes.before)
        /\ bldRes'.op = "select"
        /\ bldRes'.before = bld)
          => (/\ bldRes'.sql = bldRes.sql
              /\ bldRes'.args = bldRes.args
              /\ (bldRes'.args # <<>> => "$1" \in {bldRes'.sql[i] : i \in 1..Len(bldRes'.sql)}))]_vars

====
